---- MODULE Spec2Model ----
(***************************************************************************)
(* Model of package errd (mpvl/errd): one block execution Runner.Run(f)    *)
(* or Runner.RunWithContext(ctx, f).                                       *)
(* The callback f is any sequence of statements drawn from Must,           *)
(* MustDefer, IsSentinel, the condition checks, Defer, DeferFunc,          *)
(* deferFunc, panic(r)                                                     *)
(* with r not nil, and return.  Cleanup functions are the idCloser of      *)
(* errd_test.go (success, return an error, panic) and defErr(i) of         *)
(* option_test.go, which returns an intErr; handlers                       *)
(* are inc (option_test.go), Discard and Fatal.  inc is defined on intErr  *)
(* and panics on every other error, so the errors a callback passes where  *)
(* handlers may be listed are intErr values (err1, err2, ...); the         *)
(* conformance test, which lists no handler, keeps retErrors and           *)
(* deferErrors.  Cleanup functions and handlers do not call methods of E.  *)
(***************************************************************************)
EXTENDS Integers, Sequences, FiniteSets, TLC

VARIABLES
    config,      \* the Runner's *config (shared, read by Run at entry)
    ctx,        \* the context the caller started the block with (nil under Run)
    e,           \* the E of this block execution: runner, deferred, err
    pc,          \* position: "f", "doDefers", "bail", "finishDefer", "panicking", "done"
    panicVal,    \* the value of the panic being propagated (pc = "panicking")
    recovering,  \* the doRecover calls now on the call stack, oldest first: the
                 \* value r each recovered and the case of its switch
    result,      \* how Run ended: returned value, re-raised panic value or exit status
    nops,        \* number of statements the callback has executed
    nhandlers,   \* number of handlers the callback has passed to its statements
    got,         \* what the last call of IsSentinel returned to the callback
    trace,       \* history: every Handler.Handle call and every cleanup call, in order
    other        \* another block execution on the same Runner, if any: one that
                 \* ended before this one started, or one that runs concurrently
                 \* and is not taking a step now, or the one whose callback called
                 \* the Run of this one (rel tells which; "none" if there is none)

vars == <<config, ctx, e, pc, panicVal, recovering, result, nops, nhandlers, got, trace, other>>

----------------------------------------------------------------------------
\* Bounds of the model.
\* Size of one block execution: the statements the callback executes plus
\* the handlers involved (the Runner's defaults and the ones passed to Must
\* and Defer).
MaxSize == 5
\* Number of handlers a callback that uses the condition checks passes to
\* one statement.
MaxPassed == 2
\* statements of the callback in the specification with fairness
MaxFair == 3

----------------------------------------------------------------------------
\* Values.  An error (and any panic value) is a record [tag, n]; the nil
\* error is Nil.

Nil == [tag |-> "nil", n |-> 0]

retErrors(id) == [tag |-> "return-err", n |-> id]
deferErrors(id) == [tag |-> "close-err", n |-> id]
panicErrors(id) == [tag |-> "panic-err", n |-> id]
deferPanicErrors(id) == [tag |-> "defer-panic-err", n |-> id]
\* a panic value that is not an error, as in panic("bar") or panic(2)
panicValue(id) == [tag |-> "value", n |-> 10 * id]

errOurPanic == [tag |-> "errd: our panic", n |-> 0]
\* the value of panic("errd: handler may not be first argument"): a string,
\* which is no error value
handlerFirst == [tag |-> "value", n |-> 1]
\* the run-time panic of *e.err when e.err is nil
nilDereference == [tag |-> "runtime error: nil pointer dereference", n |-> 0]
errNilFunc == [tag |-> "errd: nil DeferFunc", n |-> 0]
notSupported == [tag |-> "errd: type %T not supported by Defer", n |-> 0]

\* r.(error): whether a panic value is an error value
isError(r) == r.tag # "value"

\* fmt.Errorf("errd: paniced: %v", r)
paniced(r) == [tag |-> "errd: paniced: ", n |-> r.n]

\* type intErr int: the error intErr(i)
intErr(i) == [tag |-> "intErr", n |-> i]

\* err0, err1, err2, err3: the callback passes errs(id) at statement id
errs(id) == intErr(id)

\* the DeferFunc defErr(i) called: if i != 0 { return intErr(i) }; return nil
defErr(i) == IF i # 0 THEN intErr(i) ELSE Nil

\* the run-time panic of the type assertion err.(intErr) on an error of
\* another type; it stands in place of the return value of the handler
typeAssertion == [tag |-> "interface conversion: error is not errd.intErr", n |-> 0]

\* what a call of os.Exit(1) yields in place of a return value
osExit == [tag |-> "os.Exit", n |-> 1]

NoPanic == [tag |-> "no panic", n |-> 0]

\* deferData.f
NilFunc == "nil"
voidErrorFunc == "voidErrorFunc"
\* the DeferFunc defErr(i), for an int i
defErrFunc == "defErr(i)"

\* Handlers.  name tells the handlers of the Runner ("d") from the ones
\* passed at a Must/Defer site ("h").
HandlerKinds == {"inc", "Discard", "Fatal"}
SiteHandlers == {[kind |-> k, name |-> "h"] : k \in HandlerKinds}
DefaultHandlers == {[kind |-> k, name |-> "d"] : k \in HandlerKinds}

SeqsUpTo(S, k) == UNION {[1..m -> S] : m \in 0..k}

DefaultLists == SeqsUpTo(DefaultHandlers, MaxSize - 1)

CloserActions == {"success", "deferError", "deferPanic"}

\* The Close methods the callback passes to Defer where handlers can be
\* listed: one that succeeds and one that panics.  The cleanup function
\* that returns an error is there defErr(i), registered with DeferFunc: its
\* error is an intErr, which inc accepts.
CleanupActions == {"success", "deferPanic"}

\* Contexts.  NilContext is the nil context.Context (the zero value of
\* core.context, and a value a caller can pass to RunWithContext); TODO is
\* context.TODO().
NilContext == "nil"
TODO == "context.TODO"
Contexts == {NilContext, "context.Background", "ctx"}

----------------------------------------------------------------------------
\* State view passed to handlers and cleanup functions: (*state)(e).

Context(s) == IF s.context = NilContext THEN TODO ELSE s.context
Err(s) == IF s.err = Nil THEN Nil ELSE s.err
Panicking(s) == s.runner.inPanic

\* Handler.Handle(s, err) for the handlers of the model.
discard(s, err) == Nil
\* fatal without os.Exit(1): return nil
fatalReturn(s, err) == Nil
fatal(s, err) == osExit
\* inc: i := err.(intErr); return i + 1
inc(s, err) == IF err.tag = "intErr" THEN intErr(err.n + 1) ELSE typeAssertion

Handle(eh, s, err) ==
    CASE eh.kind = "inc" -> inc(s, err)
      [] eh.kind = "Discard" -> discard(s, err)
      [] eh.kind = "Fatal" -> fatal(s, err)

\* An entry of the history: what was called (op, who), with which argument
\* (arg; hs: the handlers passed to Must, Defer, IsSentinel) and result (out), at which
\* statement of the callback (site), and what s.Err(), s.Panicking() and
\* s.Context() reported at that moment.
Event(op, site, who, arg, out, hs, s) ==
    [op |-> op, site |-> site, who |-> who, arg |-> arg, out |-> out, hs |-> hs,
     err |-> Err(s), panicking |-> Panicking(s), context |-> Context(s)]

NoHandler == [kind |-> "none", name |-> "none"]

HandleEvent(eh, s, err, site) ==
    Event("handle", site, eh, err, Handle(eh, s, err), <<>>, s)

PanicEvent(r, site, s) == Event("panic", site, NoHandler, r, Nil, <<>>, s)

\* errorHandler.handle without *h.err = newErr
handledNoStore(err, newErr) ==
    [done |-> newErr \in {Nil, osExit, typeAssertion},
     exit |-> newErr = osExit,
     panic |-> IF newErr = typeAssertion THEN typeAssertion ELSE NoPanic,
     err  |-> err]
handleNoStore(eh, s, err) == handledNoStore(err, Handle(eh, s, err))

\* errorHandler.handle: one handler applied to *h.err.  handled is handle
\* from the result newErr of the handler on: a handler that ends the process
\* or panics leaves *h.err as it was.
handled(err, newErr) ==
    [done |-> newErr \in {Nil, osExit, typeAssertion},
     exit |-> newErr = osExit,
     panic |-> IF newErr = typeAssertion THEN typeAssertion ELSE NoPanic,
     err  |-> IF newErr \in {Nil, osExit, typeAssertion} THEN err ELSE newErr]
handle(eh, s, err) == handled(err, Handle(eh, s, err))

\* for _, h := range hs { if eh.handle(h) { return } }
RECURSIVE handleAll(_, _, _, _)
RECURSIVE handleNext(_, _, _, _, _)
handleAll(hs, s, err, site) ==
    IF hs = <<>>
    THEN [done |-> FALSE, exit |-> FALSE, panic |-> NoPanic, err |-> err, calls |-> <<>>]
    ELSE handleNext(Tail(hs), s, site, handle(Head(hs), s, err),
                    HandleEvent(Head(hs), s, err, site))
\* the loop after the call ev of a handler gave r, hs being the handlers left
handleNext(hs, s, site, r, ev) ==
    IF r.done
    THEN [done |-> TRUE, exit |-> r.exit, panic |-> r.panic, err |-> r.err,
          calls |-> IF r.panic # NoPanic
                    THEN <<ev, PanicEvent(r.panic, site, s)>> ELSE <<ev>>]
    ELSE [handleAll(hs, s, r.err, site) EXCEPT !.calls = <<ev>> \o @]

\* processError without its call of bail
processErrorNoBail(s, err, handlers, site) ==
    LET r1 == handleAll(handlers, s, err, site)
        r2 == IF ~r1.done /\ Len(handlers) = 0
              THEN handleAll(s.runner.defaultHandlers, s, r1.err, site)
              ELSE r1
        calls == IF ~r1.done /\ Len(handlers) = 0 THEN r1.calls \o r2.calls ELSE r1.calls
    IN  IF r2.done
        THEN [e |-> s, bail |-> FALSE, exit |-> r2.exit, panic |-> r2.panic, calls |-> calls]
        ELSE [e |-> IF s.err = Nil THEN [s EXCEPT !.err = r2.err] ELSE s,
              bail |-> FALSE, exit |-> FALSE, panic |-> NoPanic, calls |-> calls]

\* processError with break in place of return when a handler returns nil
processErrorBreak(s, err, handlers, site) ==
    LET r1 == handleAll(handlers, s, err, site)
        r2 == IF ~r1.done /\ Len(handlers) = 0
              THEN handleAll(s.runner.defaultHandlers, s, r1.err, site)
              ELSE r1
        calls == IF ~r1.done /\ Len(handlers) = 0 THEN r1.calls \o r2.calls ELSE r1.calls
    IN  IF r2.exit \/ r2.panic # NoPanic
        THEN [e |-> s, bail |-> FALSE, exit |-> r2.exit, panic |-> r2.panic, calls |-> calls]
        ELSE [e |-> IF s.err = Nil THEN [s EXCEPT !.err = r2.err] ELSE s,
              bail |-> TRUE, exit |-> FALSE, panic |-> NoPanic, calls |-> calls]

\* processError without the test len(handlers) == 0
processErrorAlwaysDefaults(s, err, handlers, site) ==
    LET r1 == handleAll(handlers, s, err, site)
        r2 == IF ~r1.done
              THEN handleAll(s.runner.defaultHandlers, s, r1.err, site)
              ELSE r1
        calls == IF ~r1.done THEN r1.calls \o r2.calls ELSE r1.calls
    IN  IF r2.done
        THEN [e |-> s, bail |-> FALSE, exit |-> r2.exit, panic |-> r2.panic, calls |-> calls]
        ELSE [e |-> IF s.err = Nil THEN [s EXCEPT !.err = r2.err] ELSE s,
              bail |-> TRUE, exit |-> FALSE, panic |-> NoPanic, calls |-> calls]

\* processError storing the error as it was passed, not as handled
processErrorStoreRaw(s, err, handlers, site) ==
    LET r1 == handleAll(handlers, s, err, site)
        r2 == IF ~r1.done /\ Len(handlers) = 0
              THEN handleAll(s.runner.defaultHandlers, s, r1.err, site)
              ELSE r1
        calls == IF ~r1.done /\ Len(handlers) = 0 THEN r1.calls \o r2.calls ELSE r1.calls
    IN  IF r2.done
        THEN [e |-> s, bail |-> FALSE, exit |-> r2.exit, panic |-> r2.panic, calls |-> calls]
        ELSE [e |-> IF s.err = Nil THEN [s EXCEPT !.err = err] ELSE s,
              bail |-> TRUE, exit |-> FALSE, panic |-> NoPanic, calls |-> calls]

\* processError up to the call of bail.
processError(s, err, handlers, site) ==
    LET r1 == handleAll(handlers, s, err, site)
        r2 == IF ~r1.done /\ Len(handlers) = 0
              THEN handleAll(s.runner.defaultHandlers, s, r1.err, site)
              ELSE r1
        calls == IF ~r1.done /\ Len(handlers) = 0 THEN r1.calls \o r2.calls ELSE r1.calls
    IN  IF r2.done
        THEN [e |-> s, bail |-> FALSE, exit |-> r2.exit, panic |-> r2.panic, calls |-> calls]
        ELSE [e |-> IF s.err = Nil THEN [s EXCEPT !.err = r2.err] ELSE s,
              bail |-> TRUE, exit |-> FALSE, panic |-> NoPanic, calls |-> calls]

\* processErrorSentinel (called by IsSentinel; its body is not among the
\* sources): the handler pipeline of processError; a chain that ends in nil
\* gives false, one that ends in the sentinel gives true, any other error is
\* stored and the block bails.
processErrorSentinel(s, err, sentinel, handlers, site) ==
    LET r1 == handleAll(handlers, s, err, site)
        r2 == IF ~r1.done /\ Len(handlers) = 0
              THEN handleAll(s.runner.defaultHandlers, s, r1.err, site)
              ELSE r1
        calls == IF ~r1.done /\ Len(handlers) = 0 THEN r1.calls \o r2.calls ELSE r1.calls
    IN  IF r2.done
        THEN [e |-> s, bail |-> FALSE, exit |-> r2.exit, panic |-> r2.panic, ret |-> "false", calls |-> calls]
        ELSE IF r2.err = sentinel
        THEN [e |-> s, bail |-> FALSE, exit |-> FALSE, panic |-> NoPanic, ret |-> "true", calls |-> calls]
        ELSE [e |-> IF s.err = Nil THEN [s EXCEPT !.err = r2.err] ELSE s,
              bail |-> TRUE, exit |-> FALSE, panic |-> NoPanic, ret |-> "none", calls |-> calls]

\* all the handler markers in e.deferred, topmost first
RECURSIVE attachedHandlersAll(_)
attachedHandlersAll(deferred) ==
    IF Len(deferred) = 0 THEN <<>>
    ELSE (IF deferred[Len(deferred)].f = NilFunc
          THEN <<deferred[Len(deferred)].x>> ELSE <<>>)
            \o attachedHandlersAll(SubSeq(deferred, 1, Len(deferred) - 1))

\* The handler markers on top of e.deferred, topmost first:
\* for i := len(e.deferred); i > 0 && e.deferred[i-1].f == nil; i--
RECURSIVE attachedHandlers(_)
attachedHandlers(deferred) ==
    IF Len(deferred) > 0 /\ deferred[Len(deferred)].f = NilFunc
    THEN <<deferred[Len(deferred)].x>>
            \o attachedHandlers(SubSeq(deferred, 1, Len(deferred) - 1))
    ELSE <<>>

\* processDeferError returning at once when e.err != nil
processDeferErrorSkipWhenSet(s, err, site) ==
    LET hs == attachedHandlers(s.deferred)
        hadHandler == hs # <<>>
        r1 == handleAll(hs, s, err, site)
        r2 == IF ~r1.done /\ ~hadHandler
              THEN handleAll(s.runner.defaultHandlers, s, r1.err, site)
              ELSE r1
        calls == IF ~r1.done /\ ~hadHandler THEN r1.calls \o r2.calls ELSE r1.calls
    IN  IF s.err # Nil
        THEN [e |-> s, exit |-> FALSE, panic |-> NoPanic, calls |-> <<>>]
        ELSE IF r2.done
        THEN [e |-> s, exit |-> r2.exit, panic |-> r2.panic, calls |-> calls]
        ELSE [e |-> [s EXCEPT !.err = r2.err], exit |-> FALSE, panic |-> NoPanic, calls |-> calls]

\* processDeferError without the test e.err == nil
processDeferErrorOverwrite(s, err, site) ==
    LET hs == attachedHandlers(s.deferred)
        hadHandler == hs # <<>>
        r1 == handleAll(hs, s, err, site)
        r2 == IF ~r1.done /\ ~hadHandler
              THEN handleAll(s.runner.defaultHandlers, s, r1.err, site)
              ELSE r1
        calls == IF ~r1.done /\ ~hadHandler THEN r1.calls \o r2.calls ELSE r1.calls
    IN  IF r2.done
        THEN [e |-> s, exit |-> r2.exit, panic |-> r2.panic, calls |-> calls]
        ELSE [e |-> [s EXCEPT !.err = r2.err], exit |-> FALSE, panic |-> NoPanic, calls |-> calls]

\* processDeferError with if e.err == nil || e.runner.inPanic
processDeferErrorInPanic(s, err, site) ==
    LET hs == attachedHandlers(s.deferred)
        hadHandler == hs # <<>>
        r1 == handleAll(hs, s, err, site)
        r2 == IF ~r1.done /\ ~hadHandler
              THEN handleAll(s.runner.defaultHandlers, s, r1.err, site)
              ELSE r1
        calls == IF ~r1.done /\ ~hadHandler THEN r1.calls \o r2.calls ELSE r1.calls
    IN  IF r2.done
        THEN [e |-> s, exit |-> r2.exit, panic |-> r2.panic, calls |-> calls]
        ELSE [e |-> IF s.err = Nil \/ s.runner.inPanic THEN [s EXCEPT !.err = r2.err] ELSE s,
              exit |-> FALSE, panic |-> NoPanic, calls |-> calls]

\* processDeferError without the test !hadHandler
processDeferErrorAlwaysDefaults(s, err, site) ==
    LET hs == attachedHandlers(s.deferred)
        r1 == handleAll(hs, s, err, site)
        r2 == IF ~r1.done
              THEN handleAll(s.runner.defaultHandlers, s, r1.err, site)
              ELSE r1
        calls == IF ~r1.done THEN r1.calls \o r2.calls ELSE r1.calls
    IN  IF r2.done
        THEN [e |-> s, exit |-> r2.exit, panic |-> r2.panic, calls |-> calls]
        ELSE [e |-> IF s.err = Nil THEN [s EXCEPT !.err = r2.err] ELSE s,
              exit |-> FALSE, panic |-> NoPanic, calls |-> calls]

\* processDeferError without e.err = &err
processDeferErrorNoStore(s, err, site) ==
    LET hs == attachedHandlers(s.deferred)
        hadHandler == hs # <<>>
        r1 == handleAll(hs, s, err, site)
        r2 == IF ~r1.done /\ ~hadHandler
              THEN handleAll(s.runner.defaultHandlers, s, r1.err, site)
              ELSE r1
        calls == IF ~r1.done /\ ~hadHandler THEN r1.calls \o r2.calls ELSE r1.calls
    IN  [e |-> s, exit |-> r2.done /\ r2.exit, panic |-> r2.panic, calls |-> calls]

processDeferError(s, err, site) ==
    LET hs == attachedHandlers(s.deferred)
        hadHandler == hs # <<>>
        r1 == handleAll(hs, s, err, site)
        r2 == IF ~r1.done /\ ~hadHandler
              THEN handleAll(s.runner.defaultHandlers, s, r1.err, site)
              ELSE r1
        calls == IF ~r1.done /\ ~hadHandler THEN r1.calls \o r2.calls ELSE r1.calls
    IN  IF r2.done
        THEN [e |-> s, exit |-> r2.exit, panic |-> r2.panic, calls |-> calls]
        ELSE [e |-> IF s.err = Nil THEN [s EXCEPT !.err = r2.err] ELSE s,
              exit |-> FALSE, panic |-> NoPanic, calls |-> calls]

\* idCloser.Close: what the cleanup function of closer x does.
Close(x) ==
    CASE x.action = "success" -> [err |-> Nil, panic |-> NoPanic]
      [] x.action = "deferError" -> [err |-> deferErrors(x.id), panic |-> NoPanic]
      [] x.action = "deferPanic" -> [err |-> Nil, panic |-> deferPanicErrors(x.id)]

\* idCloser.CloseWithError(err)
CloseWithError(x, err) ==
    CASE x.action = "success" -> [err |-> Nil, panic |-> NoPanic]
      [] x.action = "deferError" -> [err |-> deferErrors(x.id), panic |-> NoPanic]
      [] x.action = "deferPanic" -> [err |-> Nil, panic |-> deferPanicErrors(x.id)]

\* closeWithErrorFunc: CloseWithError(s.Err()) if s.Err() != nil, else Close()
closeWithErrorFunc == "closeWithErrorFunc"

\* the deferFunc of TestPanic: func(s State, x interface{}) error { return s.Err() }
stateErrFunc == "stateErrFunc"

\* d.f((*state)(e), d.x): the call of the function of entry d
CallFunc(d, s) ==
    CASE d.f = stateErrFunc -> [err |-> Err(s), panic |-> NoPanic]
      [] d.f = defErrFunc -> [err |-> defErr(d.x.i), panic |-> NoPanic]
      [] d.f = closeWithErrorFunc ->
             IF Err(s) # Nil THEN CloseWithError(d.x, Err(s)) ELSE Close(d.x)
      [] OTHER -> Close(d.x)

CallEvent(d, s) == Event("cleanup", d.x.id, d.x, Nil, CallFunc(d, s).err, <<>>, s)

\* doDefers taking the oldest entry first
doDefersStepFifo(s) ==
    LET d  == s.deferred[1]
        s1 == [s EXCEPT !.deferred = Tail(s.deferred)]
    IN  IF d.f = NilFunc
        THEN [e |-> s1, exit |-> FALSE, panic |-> NoPanic, calls |-> <<>>]
        ELSE LET c  == CallFunc(d, s1)
                 ev == CallEvent(d, s1)
             IN  IF c.panic # NoPanic
                 THEN [e |-> s1, exit |-> FALSE, panic |-> c.panic,
                       calls |-> <<ev, PanicEvent(c.panic, d.x.id, s1)>>]
                 ELSE IF c.err # Nil
                 THEN LET p == processDeferError(s1, c.err, d.x.id)
                      IN  [e |-> p.e, exit |-> p.exit, panic |-> p.panic,
                           calls |-> <<ev>> \o p.calls]
                 ELSE [e |-> s1, exit |-> FALSE, panic |-> NoPanic, calls |-> <<ev>>]

\* One iteration of the loop of doDefers.
doDefersStep(s) ==
    LET i  == Len(s.deferred)
        d  == s.deferred[i]
        s1 == [s EXCEPT !.deferred = SubSeq(s.deferred, 1, i - 1)]
    IN  IF d.f = NilFunc
        THEN [e |-> s1, exit |-> FALSE, panic |-> NoPanic, calls |-> <<>>]
        ELSE LET c  == CallFunc(d, s1)
                 ev == CallEvent(d, s1)
             IN  IF c.panic # NoPanic
                 THEN [e |-> s1, exit |-> FALSE, panic |-> c.panic,
                       calls |-> <<ev, PanicEvent(c.panic, d.x.id, s1)>>]
                 ELSE IF c.err # Nil
                 THEN LET p == processDeferError(s1, c.err, d.x.id)
                      IN  [e |-> p.e, exit |-> p.exit, panic |-> p.panic,
                           calls |-> <<ev>> \o p.calls]
                 ELSE [e |-> s1, exit |-> FALSE, panic |-> NoPanic, calls |-> <<ev>>]

\* the loop of Defer counting upwards: for i := 0; i < len(h); i++
RECURSIVE pushHandlersForward(_, _)
pushHandlersForward(deferred, h) ==
    IF h = <<>> THEN deferred
    ELSE pushHandlersForward(Append(deferred, [x |-> Head(h), f |-> NilFunc]), Tail(h))

\* for i := len(h) - 1; i >= 0; i-- { append(deferData{h[i], nil}) }
RECURSIVE pushHandlers(_, _)
pushHandlers(deferred, h) ==
    IF h = <<>> THEN deferred
    ELSE pushHandlers(Append(deferred, [x |-> h[Len(h)], f |-> NilFunc]),
                      SubSeq(h, 1, Len(h) - 1))

\* doRecover, default case, with e.err = &err2 only if e.err == nil
recoverPanicFirstWins(s, r) ==
    [s EXCEPT !.runner = [@ EXCEPT !.inPanic = TRUE],
              !.err = IF @ # Nil THEN @ ELSE IF isError(r) THEN r ELSE paniced(r)]

\* doRecover, default case, without e.err = &err2
recoverPanicNoErr(s, r) ==
    [s EXCEPT !.runner = [@ EXCEPT !.inPanic = TRUE]]

\* doRecover, default case, without c.inPanic = true
recoverPanicNoInPanic(s, r) ==
    [s EXCEPT !.err = IF isError(r) THEN r ELSE paniced(r)]

\* doRecover, default case, up to the call of finishDefer.
recoverPanic(s, r) ==
    [s EXCEPT !.runner = [@ EXCEPT !.inPanic = TRUE],
              !.err = IF isError(r) THEN r ELSE paniced(r)]

----------------------------------------------------------------------------
\* Runner.Run up to the call of f: a fresh E on the Runner's config.
newE(c) == [runner |-> c, deferred |-> <<>>, err |-> Nil, context |-> NilContext]

\* Runner.RunWithContext without e.context = ctxt
RunWithContextNoSet(c, ctxt) == newE(c)
\* Runner.RunWithContext up to the call of f.
RunWithContext(c, ctxt) == [newE(c) EXCEPT !.context = ctxt]

NoResult == [kind |-> "none", val |-> Nil]

\* the value of other when this block execution is the only one
NotStarted ==
    [rel |-> "none", e |-> newE([defaultHandlers |-> <<>>, inPanic |-> FALSE]),
     pc |-> "f", panicVal |-> NoPanic, recovering |-> <<>>, result |-> NoResult,
     nops |-> 0, nhandlers |-> 0, got |-> "none", trace |-> <<>>]

Init ==
    /\ config \in {[defaultHandlers |-> dh, inPanic |-> FALSE] : dh \in DefaultLists}
    /\ ctx = NilContext
    /\ e = newE(config)
    /\ pc = "f"
    /\ panicVal = NoPanic
    /\ recovering = <<>>
    /\ result = NoResult
    /\ nops = 0
    /\ nhandlers = 0
    /\ got = "none"
    /\ trace = <<>>
    /\ other = NotStarted

\* The state after construction when the block is started with
\* RunWithContext(ctx, f), for any context the caller can pass.
InitContext ==
    /\ config \in {[defaultHandlers |-> dh, inPanic |-> FALSE] : dh \in DefaultLists}
    /\ ctx \in Contexts
    /\ e = RunWithContext(config, ctx)
    /\ pc = "f"
    /\ panicVal = NoPanic
    /\ recovering = <<>>
    /\ result = NoResult
    /\ nops = 0
    /\ nhandlers = 0
    /\ got = "none"
    /\ trace = <<>>
    /\ other = NotStarted

InBody == pc = "f"

\* what is left of MaxSize once the callback executes one more statement
\* (MaxSize covers the block executions on this Runner together)
Room == MaxSize - (Len(config.defaultHandlers) + nhandlers + nops
                   + other.nhandlers + other.nops + 1)

\* the handler lists the next statement can pass
HandlerLists == SeqsUpTo(SiteHandlers, Room)

\* the handler lists the next statement of a callback that uses the
\* condition checks can pass
ShortHandlerLists == SeqsUpTo(SiteHandlers, IF Room < MaxPassed THEN Room ELSE MaxPassed)

\* the callback executes one more statement, passing the handlers h
Statement(h) ==
    /\ Len(h) <= Room
    /\ nops' = nops + 1
    /\ nhandlers' = nhandlers + Len(h)

Exit ==
    /\ pc' = "done"
    /\ result' = [kind |-> "exit", val |-> osExit]

\* e.Must(err, h...)
Must(err, h) ==
    /\ InBody
    /\ Statement(h)
    /\ UNCHANGED <<config, ctx, other, got, recovering>>
    /\ IF err = Nil
       THEN UNCHANGED <<e, pc, panicVal, result, trace>>
       ELSE LET p == processError(e, err, h, nops)
            IN  /\ e' = p.e
                /\ trace' = trace \o <<Event("Must", nops, NoHandler, err, Nil, h, e)>>
                                   \o p.calls
                /\ IF p.exit THEN Exit /\ UNCHANGED panicVal
                   ELSE IF p.panic # NoPanic
                   THEN pc' = "panicking" /\ panicVal' = p.panic /\ UNCHANGED result
                   ELSE /\ pc' = IF p.bail THEN "bail" ELSE pc
                        /\ UNCHANGED <<panicVal, result>>

\* The msg arguments the callback passes to its condition checks at
\* statement id: the error errs(id), the string "error", the int 3.
\* A msg is its dynamic type with its value: the text (tag) and number (n)
\* of an error, the text of a string, the number of an int.
Msgs(id) == {[type |-> "error", tag |-> errs(id).tag, n |-> errs(id).n],
             [type |-> "string", tag |-> "error", n |-> 0],
             [type |-> "int", tag |-> "", n |-> 3]}

\* errors.New(x)
errorsNew(x) == [tag |-> x, n |-> 0]

\* fmt.Errorf(format, args...)
Errorf(format, arg) == [tag |-> format, n |-> arg]

\* the type switch of the condition check: the error made of msg
MsgError(msg) ==
    CASE msg.type = "error" -> [tag |-> msg.tag, n |-> msg.n]
      [] msg.type = "string" -> errorsNew(msg.tag)
      [] OTHER -> Errorf("errd: %#v", msg.n)

\* the condition check running processError when the condition holds
AssertCondInverted(condition, msg, h) ==
    /\ InBody
    /\ Statement(h)
    /\ UNCHANGED <<config, ctx, other, got, recovering>>
    /\ IF ~condition
       THEN UNCHANGED <<e, pc, panicVal, result, trace>>
       ELSE LET err == MsgError(msg)
                p   == processError(e, err, h, nops)
            IN  /\ e' = p.e
                /\ trace' = trace \o <<Event("Must", nops, NoHandler, err, Nil, h, e)>>
                                   \o p.calls
                /\ IF p.exit THEN Exit /\ UNCHANGED panicVal
                   ELSE IF p.panic # NoPanic
                   THEN pc' = "panicking" /\ panicVal' = p.panic /\ UNCHANGED result
                   ELSE /\ pc' = IF p.bail THEN "bail" ELSE pc
                        /\ UNCHANGED <<panicVal, result>>

\* The condition check of E with a message: (condition, msg, h...).  Its
\* entry in the history is the one of a check site, as for Must.
AssertCond(condition, msg, h) ==
    /\ InBody
    /\ Statement(h)
    /\ UNCHANGED <<config, ctx, other, got, recovering>>
    /\ IF condition
       THEN UNCHANGED <<e, pc, panicVal, result, trace>>
       ELSE LET err == MsgError(msg)
                p   == processError(e, err, h, nops)
            IN  /\ e' = p.e
                /\ trace' = trace \o <<Event("Must", nops, NoHandler, err, Nil, h, e)>>
                                   \o p.calls
                /\ IF p.exit THEN Exit /\ UNCHANGED panicVal
                   ELSE IF p.panic # NoPanic
                   THEN pc' = "panicking" /\ panicVal' = p.panic /\ UNCHANGED result
                   ELSE /\ pc' = IF p.bail THEN "bail" ELSE pc
                        /\ UNCHANGED <<panicVal, result>>

\* The condition check of E with a format: (condition, format, args...).
Assertf(condition, format, arg) ==
    /\ InBody
    /\ Statement(<<>>)
    /\ UNCHANGED <<config, ctx, other, got, recovering>>
    /\ IF condition
       THEN UNCHANGED <<e, pc, panicVal, result, trace>>
       ELSE LET err == Errorf(format, arg)
                p   == processError(e, err, <<>>, nops)
            IN  /\ e' = p.e
                /\ trace' = trace \o <<Event("Must", nops, NoHandler, err, Nil, <<>>, e)>>
                                   \o p.calls
                /\ IF p.exit THEN Exit /\ UNCHANGED panicVal
                   ELSE IF p.panic # NoPanic
                   THEN pc' = "panicking" /\ panicVal' = p.panic /\ UNCHANGED result
                   ELSE /\ pc' = IF p.bail THEN "bail" ELSE pc
                        /\ UNCHANGED <<panicVal, result>>

\* the sentinels the callback compares the error of statement id with: the
\* error itself and the error one handler inc makes of it
Sentinels(id) == {errs(id), inc(NoHandler, errs(id))}

\* IsSentinel without case sentinel: return true
IsSentinelNoCase(sentinel, err, h) ==
    /\ InBody
    /\ Statement(h)
    /\ UNCHANGED <<config, ctx, other, recovering>>
    /\ LET ev == Event("IsSentinel", nops, NoHandler, err, sentinel, h, e)
       IN  IF err = Nil
           THEN /\ got' = "false"
                /\ UNCHANGED <<e, pc, panicVal, result, trace>>
           ELSE LET p == processErrorSentinel(e, err, sentinel, h, nops)
                IN  /\ e' = p.e
                    /\ trace' = trace \o <<ev>> \o p.calls
                    /\ got' = IF p.bail \/ p.exit \/ p.panic # NoPanic THEN got ELSE p.ret
                    /\ IF p.exit THEN Exit /\ UNCHANGED panicVal
                       ELSE IF p.panic # NoPanic
                       THEN pc' = "panicking" /\ panicVal' = p.panic /\ UNCHANGED result
                       ELSE /\ pc' = IF p.bail THEN "bail" ELSE pc
                            /\ UNCHANGED <<panicVal, result>>

\* IsSentinel ending in processError(e, err, h); return false
IsSentinelAsMust(sentinel, err, h) ==
    /\ InBody
    /\ Statement(h)
    /\ UNCHANGED <<config, ctx, other, recovering>>
    /\ LET ev == Event("IsSentinel", nops, NoHandler, err, sentinel, h, e)
       IN  IF err = sentinel
           THEN /\ got' = "true"
                /\ UNCHANGED <<e, pc, panicVal, result, trace>>
           ELSE IF err = Nil
           THEN /\ got' = "false"
                /\ UNCHANGED <<e, pc, panicVal, result, trace>>
           ELSE LET p == processError(e, err, h, nops)
                IN  /\ e' = p.e
                    /\ trace' = trace \o <<ev>> \o p.calls
                    /\ got' = IF p.bail \/ p.exit \/ p.panic # NoPanic THEN got ELSE "false"
                    /\ IF p.exit THEN Exit /\ UNCHANGED panicVal
                       ELSE IF p.panic # NoPanic
                       THEN pc' = "panicking" /\ panicVal' = p.panic /\ UNCHANGED result
                       ELSE /\ pc' = IF p.bail THEN "bail" ELSE pc
                            /\ UNCHANGED <<panicVal, result>>

\* e.IsSentinel(sentinel, err, h...), sentinel not nil.  As for Must, only a
\* call that has an error to process enters the history.
IsSentinel(sentinel, err, h) ==
    /\ InBody
    /\ Statement(h)
    /\ UNCHANGED <<config, ctx, other, recovering>>
    /\ LET ev == Event("IsSentinel", nops, NoHandler, err, sentinel, h, e)
       IN  IF err = sentinel
           THEN /\ got' = "true"
                /\ UNCHANGED <<e, pc, panicVal, result, trace>>
           ELSE IF err = Nil
           THEN /\ got' = "false"
                /\ UNCHANGED <<e, pc, panicVal, result, trace>>
           ELSE LET p == processErrorSentinel(e, err, sentinel, h, nops)
                IN  /\ e' = p.e
                    /\ trace' = trace \o <<ev>> \o p.calls
                    /\ got' = IF p.bail \/ p.exit \/ p.panic # NoPanic THEN got ELSE p.ret
                    /\ IF p.exit THEN Exit /\ UNCHANGED panicVal
                       ELSE IF p.panic # NoPanic
                       THEN pc' = "panicking" /\ panicVal' = p.panic /\ UNCHANGED result
                       ELSE /\ pc' = IF p.bail THEN "bail" ELSE pc
                            /\ UNCHANGED <<panicVal, result>>

\* e.Defer(x, h...) for x a func() error (the Close method of an idCloser).
Defer(action, h) ==
    /\ InBody
    /\ Statement(h)
    /\ e' = [e EXCEPT !.deferred =
                Append(pushHandlers(@, h),
                       [x |-> [id |-> nops, action |-> action], f |-> voidErrorFunc])]
    /\ trace' = Append(trace, Event("Defer", nops, [id |-> nops, action |-> action],
                                    Nil, Nil, h, e))
    /\ UNCHANGED <<config, ctx, other, got, pc, panicVal, recovering, result>>

\* e.deferFunc(nil, func(s State, x interface{}) error { return s.Err() }, h...)
DeferErrFunc(h) ==
    /\ InBody
    /\ Statement(h)
    /\ e' = [e EXCEPT !.deferred =
                Append(pushHandlers(@, h),
                       [x |-> [id |-> nops, action |-> "stateErr"], f |-> stateErrFunc])]
    /\ trace' = Append(trace, Event("Defer", nops, [id |-> nops, action |-> "stateErr"],
                                    Nil, Nil, h, e))
    /\ UNCHANGED <<config, ctx, other, got, pc, panicVal, recovering, result>>

\* e.Defer(nil, h...)
DeferNil(h) ==
    /\ InBody
    /\ Statement(h)
    /\ UNCHANGED <<config, ctx, other, got, e, pc, panicVal, recovering, result, trace>>

\* e.Defer(x, h...) for x of a type the switch does not know: the handlers
\* are pushed, then panic(fmt.Errorf(notSupported, x)).
DeferNotSupported(h) ==
    /\ InBody
    /\ Statement(h)
    /\ e' = [e EXCEPT !.deferred = pushHandlers(@, h)]
    /\ pc' = "panicking"
    /\ panicVal' = notSupported
    /\ trace' = Append(trace, PanicEvent(notSupported, nops, e'))
    /\ UNCHANGED <<config, ctx, other, got, recovering, result>>

\* e.DeferFunc(i, defErr(i), h...) for the int i = 10*nops + 5 (x records
\* the statement and i)
DeferFunc(h) ==
    /\ InBody
    /\ Statement(h)
    /\ LET x == [id |-> nops, action |-> "defErr", i |-> 10 * nops + 5]
       IN  /\ e' = [e EXCEPT !.deferred =
                       Append(pushHandlers(@, h), [x |-> x, f |-> defErrFunc])]
           /\ trace' = Append(trace, Event("Defer", nops, x, Nil, Nil, h, e))
    /\ UNCHANGED <<config, ctx, other, got, pc, panicVal, recovering, result>>

\* e.deferFunc(x, nil, h...): panic(errNilFunc) before anything is pushed.
DeferFuncNil(h) ==
    /\ InBody
    /\ Statement(h)
    /\ pc' = "panicking"
    /\ panicVal' = errNilFunc
    /\ trace' = Append(trace, PanicEvent(errNilFunc, nops, e))
    /\ UNCHANGED <<config, ctx, other, got, e, recovering, result>>

\* The values the callback passes to MustDefer, each with its dynamic type:
\* an error, a nil error (which as an interface{} is nil and has no type),
\* a Handler, an idCloser.
ErrorArg(err) == [type |-> "error", err |-> err, h |-> NoHandler, action |-> "none"]
NilArg == [type |-> "nil", err |-> Nil, h |-> NoHandler, action |-> "none"]
HandlerArg(h) == [type |-> "Handler", err |-> Nil, h |-> h, action |-> "none"]
CloserArg(action) == [type |-> "closer", err |-> Nil, h |-> NoHandler, action |-> action]

\* The argument lists of MustDefer the callback passes: a Handler alone
\* (a misuse), an idCloser with the error that came with it, as in
\* e.MustDefer(client, err), and errors followed by a Handler.  No Handler
\* follows an idCloser: what autoDefer does with the Handlers among its
\* arguments is not in the sources.
MustDeferArgs(id) ==
    {<<HandlerArg(h)>> : h \in SiteHandlers}
    \cup {<<CloserArg(a), v>> : a \in CloserActions, v \in {ErrorArg(errs(id)), NilArg}}
    \cup {<<ErrorArg(errs(id)), HandlerArg(h)>> : h \in SiteHandlers}
    \cup {<<ErrorArg(errs(id)), ErrorArg(errs(id)), HandlerArg(h)>> : h \in SiteHandlers}

\* the Handlers among args: if h, ok := x.(Handler); ok
HandlerArgs(args) == SelectSeq(args, LAMBDA v : v.type = "Handler")
HandlersIn(args) == [k \in 1..Len(HandlerArgs(args)) |-> HandlerArgs(args)[k].h]

\* processErrorArgs(e, err, args): the body of processError on the Handlers
\* among args (hadHandler is len(handlers) != 0 of that list).
processErrorArgs(s, err, args, site) == processError(s, err, HandlersIn(args), site)

\* e.autoDefer(x, args), called with no Handler among args.  Its body is not
\* among the sources: the cleanup strategy is selected by what x can do, the
\* most informative first; an idCloser has CloseWithError.  A nil x
\* registers nothing, as in Defer.
autoDefer(s, v, site) ==
    IF v.type = "nil" THEN s
    ELSE [s EXCEPT !.deferred =
              Append(@, [x |-> [id |-> site, action |-> v.action],
                         f |-> closeWithErrorFunc])]

\* what autoDefer(x, args) adds to the history
AutoDeferEvents(s, v, site) ==
    IF v.type = "nil" THEN <<>>
    ELSE <<Event("Defer", site, [id |-> site, action |-> v.action], Nil, Nil, <<>>, s)>>

\* r with calls put in front of its calls
After(calls, r) == [r EXCEPT !.calls = calls \o @]

\* The loop of MustDefer from argument i on (i = 1 is the first):
\*     for i, v := range x { switch err := v.(type) { ... } }
\* mustDeferNext is the loop after processErrorArgs gave p for argument i.
RECURSIVE mustDeferFrom(_, _, _, _)
RECURSIVE mustDeferNext(_, _, _, _)
mustDeferFrom(s, x, i, site) ==
    IF i > Len(x)
    THEN [e |-> s, bail |-> FALSE, exit |-> FALSE, panic |-> NoPanic, calls |-> <<>>]
    ELSE CASE x[i].type = "error" ->
                  After(<<Event("Must", site, NoHandler, x[i].err, Nil,
                                HandlersIn(SubSeq(x, i + 1, Len(x))), s)>>,
                        mustDeferNext(
                            processErrorArgs(s, x[i].err, SubSeq(x, i + 1, Len(x)), site),
                            x, i, site))
           [] x[i].type = "Handler" ->
                  IF i = 1
                  THEN [e |-> s, bail |-> FALSE, exit |-> FALSE, panic |-> handlerFirst,
                        calls |-> <<PanicEvent(handlerFirst, site, s)>>]
                  ELSE mustDeferFrom(s, x, i + 1, site)
           [] OTHER ->
                  After(AutoDeferEvents(s, x[i], site),
                        mustDeferFrom(autoDefer(s, x[i], site), x, i + 1, site))
mustDeferNext(p, x, i, site) ==
    IF p.bail \/ p.exit \/ p.panic # NoPanic
    THEN p
    ELSE After(p.calls, mustDeferFrom(p.e, x, i + 1, site))

\* what the loop of MustDefer leaves when it ended as r tells
MustDeferred(r) ==
    /\ e' = r.e
    /\ trace' = trace \o r.calls
    /\ IF r.exit THEN Exit /\ UNCHANGED panicVal
       ELSE IF r.panic # NoPanic
       THEN pc' = "panicking" /\ panicVal' = r.panic /\ UNCHANGED result
       ELSE /\ pc' = IF r.bail THEN "bail" ELSE pc
            /\ UNCHANGED <<panicVal, result>>

\* e.MustDefer(x...)
MustDefer(x) ==
    /\ InBody
    /\ Statement(HandlersIn(x))
    /\ MustDeferred(mustDeferFrom(e, x, 1, nops))
    /\ UNCHANGED <<config, ctx, other, got, recovering>>

\* a panic(r) in the callback
BodyPanic(r) ==
    /\ InBody
    /\ Statement(<<>>)
    /\ pc' = "panicking"
    /\ panicVal' = r
    /\ trace' = Append(trace, PanicEvent(r, nops, e))
    /\ UNCHANGED <<config, ctx, other, got, e, recovering, result>>

\* f returns: Run goes on to doDefers(&e, 0)
BodyReturn ==
    /\ pc = "f"
    /\ pc' = "doDefers"
    /\ UNCHANGED <<config, ctx, other, got, e, panicVal, recovering, result, nops, nhandlers, trace>>

InDoDefers == pc \in {"doDefers", "bail", "finishDefer"}

\* one iteration of the loop of doDefers, called by Run, bail or finishDefer
DoDefers ==
    /\ InDoDefers
    /\ Len(e.deferred) > 0
    /\ LET p == doDefersStep(e)
       IN  /\ e' = p.e
           /\ trace' = trace \o p.calls
           /\ IF p.exit THEN Exit /\ UNCHANGED panicVal
              ELSE IF p.panic # NoPanic
              THEN pc' = "panicking" /\ panicVal' = p.panic /\ UNCHANGED result
              ELSE UNCHANGED <<pc, panicVal, result>>
    /\ UNCHANGED <<config, ctx, other, got, recovering, nops, nhandlers>>

\* Run after doDefers: if e.err != nil { return *e.err }; return nil
RunReturn ==
    /\ pc = "doDefers"
    /\ Len(e.deferred) = 0
    /\ pc' = "done"
    /\ result' = [kind |-> "return", val |-> IF e.err # Nil THEN e.err ELSE Nil]
    /\ UNCHANGED <<config, ctx, other, got, e, panicVal, recovering, nops, nhandlers, trace>>

\* bail after doDefers: panic(errOurPanic)
bail ==
    /\ pc = "bail"
    /\ Len(e.deferred) = 0
    /\ pc' = "panicking"
    /\ panicVal' = errOurPanic
    /\ trace' = Append(trace, PanicEvent(errOurPanic, nops - 1, e))
    /\ UNCHANGED <<config, ctx, other, got, e, recovering, result, nops, nhandlers>>

\* doRecover, default case, without the call of finishDefer
doRecoverNoFinish ==
    /\ pc = "panicking"
    /\ e' = IF panicVal = errOurPanic THEN e ELSE recoverPanic(e, panicVal)
    /\ recovering' = Append(recovering, [r |-> panicVal, ours |-> panicVal = errOurPanic])
    /\ panicVal' = NoPanic
    /\ IF panicVal = errOurPanic
       THEN pc' = "finishDefer" /\ UNCHANGED result
       ELSE pc' = "done" /\ result' = [kind |-> "panic", val |-> panicVal]
    /\ UNCHANGED <<config, ctx, other, got, nops, nhandlers, trace>>

\* doRecover without the case errOurPanic
doRecoverNoOurs ==
    /\ pc = "panicking"
    /\ e' = recoverPanic(e, panicVal)
    /\ recovering' = Append(recovering, [r |-> panicVal, ours |-> FALSE])
    /\ panicVal' = NoPanic
    /\ pc' = "finishDefer"
    /\ UNCHANGED <<config, ctx, other, got, result, nops, nhandlers, trace>>

\* doRecover, default case, setting inPanic in the Runner's config rather
\* than in a copy of it
doRecoverShared ==
    /\ pc = "panicking"
    /\ e' = IF panicVal = errOurPanic THEN e ELSE recoverPanic(e, panicVal)
    /\ config' = IF panicVal = errOurPanic THEN config
                 ELSE [config EXCEPT !.inPanic = TRUE]
    /\ recovering' = Append(recovering, [r |-> panicVal, ours |-> panicVal = errOurPanic])
    /\ panicVal' = NoPanic
    /\ pc' = "finishDefer"
    /\ UNCHANGED <<ctx, other, got, result, nops, nhandlers, trace>>

\* The deferred doRecover (of Run, or of finishDefer) receives the panic:
\* r := recover(), the switch, and the entry into finishDefer.
doRecover ==
    /\ pc = "panicking"
    /\ e' = IF panicVal = errOurPanic THEN e ELSE recoverPanic(e, panicVal)
    /\ recovering' = Append(recovering, [r |-> panicVal, ours |-> panicVal = errOurPanic])
    /\ panicVal' = NoPanic
    /\ pc' = "finishDefer"
    /\ UNCHANGED <<config, ctx, other, got, result, nops, nhandlers, trace>>

\* the outermost doRecover deciding how Run ends
endRecoverOldest ==
    /\ pc = "finishDefer"
    /\ Len(e.deferred) = 0
    /\ LET fr == recovering[1]
       IN  result' = IF fr.ours
                     THEN [kind |-> "return", val |-> e.err]
                     ELSE [kind |-> "panic", val |-> fr.r]
    /\ pc' = "done"
    /\ UNCHANGED <<config, ctx, other, got, e, panicVal, recovering, nops, nhandlers, trace>>

\* doRecover, default case, with *err = *e.err in place of panic(r)
endRecoverReturn ==
    /\ pc = "finishDefer"
    /\ Len(e.deferred) = 0
    /\ result' = [kind |-> "return", val |-> e.err]
    /\ pc' = "done"
    /\ UNCHANGED <<config, ctx, other, got, e, panicVal, recovering, nops, nhandlers, trace>>

\* finishDefer has returned to the innermost doRecover: *err = *e.err and
\* Run returns (case errOurPanic), or panic(r), which no frame recovers.
\* *e.err with e.err == nil is a run-time panic of the deferred doRecover.
endRecover ==
    /\ pc = "finishDefer"
    /\ Len(e.deferred) = 0
    /\ LET fr == recovering[Len(recovering)]
       IN  result' = IF fr.ours
                     THEN IF e.err = Nil
                          THEN [kind |-> "panic", val |-> nilDereference]
                          ELSE [kind |-> "return", val |-> e.err]
                     ELSE [kind |-> "panic", val |-> fr.r]
    /\ pc' = "done"
    /\ UNCHANGED <<config, ctx, other, got, e, panicVal, recovering, nops, nhandlers, trace>>

\* The callback without IsSentinel.
NextCore ==
    \/ \E h \in HandlerLists : \E err \in {Nil, errs(nops)} : Must(err, h)
    \/ \E h \in HandlerLists : \E a \in CleanupActions : Defer(a, h)
    \/ \E h \in HandlerLists : DeferFunc(h)
    \/ \E h \in HandlerLists : DeferNil(h)
    \/ \E h \in HandlerLists : DeferNotSupported(h)
    \/ \E h \in HandlerLists : DeferFuncNil(h)
    \/ \E r \in {panicErrors(nops), panicValue(nops)} : BodyPanic(r)
    \/ BodyReturn
    \/ DoDefers
    \/ RunReturn
    \/ bail
    \/ doRecover
    \/ endRecover

Next ==
    \/ \E h \in HandlerLists : \E err \in {Nil, errs(nops)} :
          \E sentinel \in Sentinels(nops) : IsSentinel(sentinel, err, h)
    \/ NextCore

Spec == Init /\ [][Next]_vars

\* A callback that does not call IsSentinel.
SpecCore == Init /\ [][NextCore]_vars

\* The callback checking errors with Must and conditions with the two
\* condition checks of E, and registering cleanup functions.
NextAssert ==
    \/ \E h \in ShortHandlerLists : \E condition \in BOOLEAN : \E msg \in Msgs(nops) :
          AssertCond(condition, msg, h)
    \/ \E condition \in BOOLEAN : Assertf(condition, "format %d", 1)
    \/ \E h \in ShortHandlerLists : \E err \in {Nil, errs(nops)} : Must(err, h)
    \/ \E h \in ShortHandlerLists : \E a \in CleanupActions : Defer(a, h)
    \/ \E h \in ShortHandlerLists : DeferFunc(h)
    \/ BodyReturn
    \/ DoDefers
    \/ RunReturn
    \/ bail
    \/ doRecover
    \/ endRecover

SpecAssert == Init /\ [][NextAssert]_vars

\* The conformance test.  TestActions are the actions of a test case.
TestActions == CloserActions \cup {"retError", "bodyPanic"}

\* retDefer(w, closers, id, action): the closer and error it returns, or
\* the value it panics with.
retDefer(id, action) ==
    CASE action \in CloserActions ->
             [c |-> [id |-> id, action |-> action], err |-> Nil, panic |-> NoPanic]
      [] action = "retError" ->
             [c |-> [id |-> id, action |-> action], err |-> retErrors(id), panic |-> NoPanic]
      [] action = "bodyPanic" ->
             [c |-> [id |-> id, action |-> action], err |-> Nil, panic |-> panicErrors(id)]

\* One iteration of the loop of errdClosureDefer, for action a:
\*     c, err := retDefer(w, closers, i, a); e.Must(err); e.Defer(c.Close)
\* e.Must(err) returns at once when err is nil.
Iteration(a) ==
    LET r == retDefer(nops, a)
    IN  IF r.panic # NoPanic THEN BodyPanic(r.panic)
        ELSE IF r.err # Nil THEN Must(r.err, <<>>)
        ELSE Defer(r.c.action, <<>>)

\* ec = WithDefault(): a Runner without default handlers.
InitConformance ==
    /\ config = [defaultHandlers |-> <<>>, inPanic |-> FALSE]
    /\ ctx = NilContext
    /\ e = newE(config)
    /\ pc = "f"
    /\ panicVal = NoPanic
    /\ recovering = <<>>
    /\ result = NoResult
    /\ nops = 0
    /\ nhandlers = 0
    /\ got = "none"
    /\ trace = <<>>
    /\ other = NotStarted

NextConformance ==
    \/ \E a \in TestActions : Iteration(a)
    \/ BodyReturn
    \/ DoDefers
    \/ RunReturn
    \/ bail
    \/ doRecover
    \/ endRecover

\* simulate(actions, errdClosureDefer), for every sequence of actions
SpecConformance == InitConformance /\ [][NextConformance]_vars

\* The deferred closures of properTraditionalDefer run by the Go runtime
\* when the function returns or panics, last registered first:
\*     if err := c.Close(); err != nil && errOut == nil { errOut = err }
\* A panic of a deferred closure replaces the panic in progress and the
\* remaining deferred closures still run.
RECURSIVE nativeDefers(_, _)
nativeDefers(closers, st) ==
    IF closers = <<>> THEN st
    ELSE LET c  == closers[Len(closers)]
             r  == Close(c)
             st1 == [closed |-> Append(st.closed, c.id),
                     errOut |-> IF r.panic = NoPanic /\ r.err # Nil /\ st.errOut = Nil
                                THEN r.err ELSE st.errOut,
                     panic  |-> IF r.panic # NoPanic THEN r.panic ELSE st.panic]
         IN  nativeDefers(SubSeq(closers, 1, Len(closers) - 1), st1)

\* The loop of properTraditionalDefer from iteration i on, with the closers
\* deferred so far.
RECURSIVE traditionalLoop(_, _, _)
traditionalLoop(actions, i, closers) ==
    IF i > Len(actions)
    THEN nativeDefers(closers, [closed |-> <<>>, errOut |-> Nil, panic |-> NoPanic])
    ELSE LET r == retDefer(i - 1, actions[i])
         IN  IF r.panic # NoPanic
             THEN nativeDefers(closers, [closed |-> <<>>, errOut |-> Nil, panic |-> r.panic])
             ELSE IF r.err # Nil
             THEN nativeDefers(closers, [closed |-> <<>>, errOut |-> r.err, panic |-> NoPanic])
             ELSE traditionalLoop(actions, i + 1, Append(closers, r.c))

\* simulate(actions, properTraditionalDefer): the closers closed, in order,
\* and the error returned or the panic value recovered by simulate.
properTraditionalDefer(actions) ==
    LET st == traditionalLoop(actions, 1, <<>>)
    IN  [closed |-> st.closed,
         result |-> IF st.panic # NoPanic
                    THEN [kind |-> "panic", val |-> st.panic]
                    ELSE [kind |-> "return", val |-> st.errOut]]

\* Several block executions on one Runner.  This block execution as a
\* value, to be kept in other.
Current(rel) ==
    [rel |-> rel, e |-> e, pc |-> pc, panicVal |-> panicVal, recovering |-> recovering,
     result |-> result, nops |-> nops, nhandlers |-> nhandlers, got |-> got,
     trace |-> trace]

\* r.Run(f) is called while the block execution so far becomes other:
\* Runner.Run up to the call of f, on the Runner's config as it is now.
StartRun(rel) ==
    /\ other.rel = "none"
    /\ other' = Current(rel)
    /\ e' = newE(config)
    /\ pc' = "f"
    /\ panicVal' = NoPanic
    /\ recovering' = <<>>
    /\ result' = NoResult
    /\ nops' = 0
    /\ nhandlers' = 0
    /\ got' = "none"
    /\ trace' = <<>>
    /\ UNCHANGED <<config, ctx>>

\* The caller runs another block on the Runner after Run has returned or
\* after it has recovered the panic Run re-raised.
RunAgain ==
    /\ pc = "done"
    /\ result.kind \in {"return", "panic"}
    /\ StartRun("before")

\* Sequential reuse of a Runner: blocks of Must, Defer and panics, one after
\* the other.
NextReuse ==
    \/ \E h \in ShortHandlerLists : \E err \in {Nil, errs(nops)} : Must(err, h)
    \/ \E h \in ShortHandlerLists : \E a \in CleanupActions : Defer(a, h)
    \/ \E h \in ShortHandlerLists : DeferFunc(h)
    \/ \E r \in {panicErrors(nops), panicValue(nops)} : BodyPanic(r)
    \/ BodyReturn
    \/ DoDefers
    \/ RunReturn
    \/ bail
    \/ doRecover
    \/ endRecover
    \/ RunAgain

SpecReuse == Init /\ [][NextReuse]_vars

\* Another goroutine calls Run on the Runner while this block execution is
\* under way.
GoRun == pc # "done" /\ StartRun("concurrent")

\* The scheduler lets the other goroutine take the next steps.
Switch ==
    /\ other.rel = "concurrent"
    /\ other.pc # "done"
    /\ other' = Current("concurrent")
    /\ e' = other.e
    /\ pc' = other.pc
    /\ panicVal' = other.panicVal
    /\ recovering' = other.recovering
    /\ result' = other.result
    /\ nops' = other.nops
    /\ nhandlers' = other.nhandlers
    /\ got' = other.got
    /\ trace' = other.trace
    /\ UNCHANGED <<config, ctx>>

\* Two goroutines running the block of errdClosureDefer on one Runner, in
\* any interleaving of their steps.
NextConcurrent == NextConformance \/ GoRun \/ Switch

SpecConcurrent == InitConformance /\ [][NextConcurrent]_vars

\* A block execution inside the callback of another, whose callback uses
\* the E of the outer one:
\*     r.Run(func(x *E) { ...; r.Run(func(y *E) { ...; x.Must(err); ... }); ... })
\* The outer callback calls Run: its execution waits in other.
RunNested == pc = "f" /\ StartRun("outer")

\* x.Must(err) called by the inner callback: processError on the outer E up
\* to the call of bail.
MustOuter(err) ==
    /\ pc = "f"
    /\ other.rel = "outer"
    /\ Room >= 0
    /\ LET x == other.e
           p == processError(x, err, <<>>, other.nops)
       IN  /\ other' = [other EXCEPT
                           !.e = p.e,
                           !.nops = @ + 1,
                           !.trace = @ \o <<Event("Must", other.nops, NoHandler, err, Nil, <<>>, x)>>
                                       \o p.calls]
           /\ trace' = Append(trace,
                   Event("MustOuter", nops, NoHandler, err,
                         IF p.bail THEN p.e.err ELSE Nil, <<>>, e))
           /\ IF p.exit THEN Exit /\ UNCHANGED panicVal
              ELSE IF p.panic # NoPanic
              THEN pc' = "panicking" /\ panicVal' = p.panic /\ UNCHANGED result
              ELSE /\ pc' = IF p.bail THEN "bailOuter" ELSE pc
                   /\ UNCHANGED <<panicVal, result>>
    /\ UNCHANGED <<config, ctx, e, got, recovering, nops, nhandlers>>

\* what one iteration p of doDefers(x, 0) leaves: x with the entry removed,
\* and a panic of the cleanup function unwinding the inner callback
DrainedOuter(p) ==
    /\ other' = [other EXCEPT !.e = p.e, !.trace = @ \o p.calls]
    /\ IF p.exit THEN Exit /\ UNCHANGED panicVal
       ELSE IF p.panic # NoPanic
       THEN pc' = "panicking" /\ panicVal' = p.panic /\ UNCHANGED result
       ELSE UNCHANGED <<pc, panicVal, result>>

\* bail(x) called by x.Must in the inner callback: one iteration of
\* doDefers(x, 0).
DoDefersOuter ==
    /\ pc = "bailOuter"
    /\ Len(other.e.deferred) > 0
    /\ DrainedOuter(doDefersStep(other.e))
    /\ UNCHANGED <<config, ctx, e, got, recovering, nops, nhandlers, trace>>

\* bail(x) after doDefers: panic(errOurPanic), in the inner callback
bailOuter ==
    /\ pc = "bailOuter"
    /\ Len(other.e.deferred) = 0
    /\ pc' = "panicking"
    /\ panicVal' = errOurPanic
    /\ other' = [other EXCEPT
                    !.trace = Append(@, PanicEvent(errOurPanic, other.nops - 1, other.e))]
    /\ UNCHANGED <<config, ctx, e, got, recovering, result, nops, nhandlers, trace>>

\* The inner Run ends: it returns to the outer callback, which goes on, or
\* its panic unwinds the outer callback.
NestedReturn ==
    /\ pc = "done"
    /\ other.rel = "outer"
    /\ result.kind \in {"return", "panic"}
    /\ other' = Current("inner")
    /\ e' = other.e
    /\ recovering' = other.recovering
    /\ result' = other.result
    /\ nops' = other.nops
    /\ nhandlers' = other.nhandlers
    /\ got' = other.got
    /\ IF result.kind = "panic"
       THEN /\ pc' = "panicking"
            /\ panicVal' = result.val
            /\ trace' = Append(other.trace, PanicEvent(result.val, other.nops, other.e))
       ELSE /\ pc' = other.pc
            /\ panicVal' = other.panicVal
            /\ trace' = other.trace
    /\ UNCHANGED <<config, ctx>>

NextNested ==
    \/ \E h \in ShortHandlerLists : \E err \in {Nil, errs(nops)} : Must(err, h)
    \/ \E h \in ShortHandlerLists : \E a \in CleanupActions : Defer(a, h)
    \/ \E h \in ShortHandlerLists : DeferFunc(h)
    \/ BodyReturn
    \/ DoDefers
    \/ RunReturn
    \/ bail
    \/ doRecover
    \/ endRecover
    \/ RunNested
    \/ MustOuter(errs(other.nops))
    \/ DoDefersOuter
    \/ bailOuter
    \/ NestedReturn

SpecNested == Init /\ [][NextNested]_vars

\* TestPanic: a callback that registers the function returning s.Err() and
\* then panics, fails to register, or aborts.
NextPanic ==
    \/ \E h \in ShortHandlerLists : DeferErrFunc(h)
    \/ \E h \in ShortHandlerLists : \E a \in CleanupActions : Defer(a, h)
    \/ \E h \in ShortHandlerLists : DeferFunc(h)
    \/ \E h \in ShortHandlerLists : \E err \in {Nil, errs(nops)} : Must(err, h)
    \/ \E r \in {panicErrors(nops), panicValue(nops)} : BodyPanic(r)
    \/ \E x \in MustDeferArgs(nops) : MustDefer(x)
    \/ DeferFuncNil(<<>>)
    \/ DeferNotSupported(<<>>)
    \/ BodyReturn
    \/ DoDefers
    \/ RunReturn
    \/ bail
    \/ doRecover
    \/ endRecover

SpecPanic == Init /\ [][NextPanic]_vars

\* A block started with RunWithContext.
SpecContext == InitContext /\ [][NextCore]_vars

----------------------------------------------------------------------------
\* Reading the history.

Reverse(q) == [i \in 1..Len(q) |-> q[Len(q) + 1 - i]]
IsPrefix(a, b) == Len(a) <= Len(b) /\ SubSeq(b, 1, Len(a)) = a
Sites(q) == [i \in 1..Len(q) |-> q[i].site]

\* the statements that registered a cleanup entry, in registration order,
\* and the entries whose cleanup function was called, in call order
DeferIds == Sites(SelectSeq(trace, LAMBDA ev : ev.op = "Defer"))
CleanupIds == Sites(SelectSeq(trace, LAMBDA ev : ev.op = "cleanup"))

CleanupCount(x) ==
    Cardinality({i \in DOMAIN trace : trace[i].op = "cleanup" /\ trace[i].who = x})

\* The error sites: a Must with a non-nil error, an IsSentinel with an error
\* that is not the sentinel (out), a cleanup call that returned an error.
\* The handler calls of a site follow it directly.
IsErrorSite(i) ==
    \/ trace[i].op = "Must"
    \/ trace[i].op = "IsSentinel"
    \/ trace[i].op = "cleanup" /\ trace[i].out # Nil
ErrorSites == {i \in DOMAIN trace : IsErrorSite(i)}
MustSites == {i \in DOMAIN trace : trace[i].op = "Must"}
RawErr(i) == IF trace[i].op = "cleanup" THEN trace[i].out ELSE trace[i].arg
LastHandle(i) ==
    CHOOSE j \in i..Len(trace) :
        /\ \A k \in (i + 1)..j : trace[k].op = "handle"
        /\ j = Len(trace) \/ trace[j + 1].op # "handle"
\* the handlers called at site i, in call order
Called(i) == [k \in 1..(LastHandle(i) - i) |-> trace[i + k].who]
\* what the handler chain of site i made of the error
ChainResult(i) == IF LastHandle(i) = i THEN RawErr(i) ELSE trace[LastHandle(i)].out
\* (a chain ends without a result when a handler ends the process or panics)
Survives(i) ==
    /\ ChainResult(i) \notin {Nil, osExit, typeAssertion}
    /\ trace[i].op = "IsSentinel" => ChainResult(i) # trace[i].out
Survivors == {i \in ErrorSites : Survives(i)}
FirstSurvivor ==
    IF Survivors = {} THEN Nil
    ELSE ChainResult(CHOOSE i \in Survivors : \A j \in Survivors : i <= j)

\* an uncontrolled fault: any panic but the one of bail
IsFault(i) == trace[i].op = "panic" /\ trace[i].arg # errOurPanic
Faults == {i \in DOMAIN trace : IsFault(i)}
\* a fault raised by a cleanup function follows the call of that function;
\* one raised by a handler of its error follows the calls of the handlers
IsCleanupFault(i) ==
    /\ IsFault(i)
    /\ \E j \in 1..(i - 1) :
          /\ trace[j].op = "cleanup" /\ trace[j].site = trace[i].site
          /\ \A k \in (j + 1)..(i - 1) : trace[k].op = "handle"
BodyFaults == {i \in Faults : ~IsCleanupFault(i)}
LastFault == trace[CHOOSE i \in Faults : \A j \in Faults : j <= i].arg

\* the Must calls whose error survived its handler chain
Aborts == {i \in MustSites : Survives(i)}

\* the block execution has ended: Run returned or re-raised a panic
Ended == pc = "done" /\ result.kind \in {"return", "panic"}

\* what a handler chain must have called, given the list hs it was to run
CalledInOrder(i, hs) ==
    /\ IsPrefix(Called(i), hs)
    /\ Len(Called(i)) = Len(hs) \/ ~Survives(i)
    /\ \A k \in 1..(Len(Called(i)) - 1) : trace[i + k].out \notin {Nil, osExit}

----------------------------------------------------------------------------
\* C1: in every block execution the cleanup functions are called in exactly
\* the reverse of the order of registration, none skipped, whether the block
\* exits by return of the callback, by an abort of Must or by a panic.
ReverseOrderCleanup ==
    /\ IsPrefix(CleanupIds, Reverse(DeferIds))
    /\ Ended => CleanupIds = Reverse(DeferIds)

\* three entries drained c3, c2, c1 while a panic of the callback is in flight
W_ReverseOrderCleanup ==
    /\ Ended /\ result.kind = "panic" /\ BodyFaults # {}
    /\ Len(DeferIds) = 3 /\ CleanupIds = Reverse(DeferIds)

\* C2: barring Fatal, every registered cleanup entry has been called exactly
\* once when the block execution ends, and never twice before; an entry that
\* returns an error or panics does not stop the drain of the others.
CleanupExactlyOnce ==
    \A i \in DOMAIN trace :
        trace[i].op = "Defer" =>
            /\ CleanupCount(trace[i].who) <= 1
            /\ Ended => CleanupCount(trace[i].who) = 1

\* an entry panicked, an older one returned an error, all three were called
W_CleanupExactlyOnce ==
    /\ Ended /\ Len(DeferIds) = 3 /\ Len(CleanupIds) = 3
    /\ \E i, j \in DOMAIN trace :
          /\ i < j /\ IsCleanupFault(i)
          /\ trace[j].op = "cleanup" /\ trace[j].out # Nil

\* C3: without panic and Fatal, Run returns what the handler chain made of
\* the first error (the aborting Must, then the cleanup entries in drain
\* order) that survived its chain, whatever later errors and their handlers
\* do, and returns nil exactly when no error survived.
FirstErrorWins ==
    (pc = "done" /\ result.kind = "return" /\ Faults = {})
        => result.val = FirstSurvivor

\* two errors survived and a later one was discarded; the first was decorated
W_FirstErrorWins ==
    /\ pc = "done" /\ result.kind = "return" /\ Faults = {}
    /\ \E i, j, k \in ErrorSites :
          /\ i < j /\ i < k /\ j # k
          /\ Survives(i) /\ Survives(j) /\ ChainResult(k) = Nil
          /\ ChainResult(i) # RawErr(i)
          /\ ChainResult(i) # ChainResult(j)

\* C4 as claimed: after a Must whose error survives its handler chain no
\* later statement of the callback executes, exactly the entries registered
\* before it are drained, and Run returns.
MustAbortsAndRunReturns ==
    \A i \in Aborts :
        /\ pc # "f" /\ nops = trace[i].site + 1
        /\ \A j \in DOMAIN trace : trace[j].op \in {"Must", "IsSentinel", "Defer"} => j <= i
        /\ Ended => CleanupIds = Reverse(DeferIds) /\ result.kind = "return"

\* C4, as the code has it: ... are drained; Run then returns, unless a
\* cleanup entry drained by the abort panics: then Run re-raises a panic
\* (and unless a Fatal handler ends the process during the drain).
MustAborts ==
    \A i \in Aborts :
        /\ pc # "f" /\ nops = trace[i].site + 1
        /\ \A j \in DOMAIN trace : trace[j].op \in {"Must", "IsSentinel", "Defer"} => j <= i
        /\ Ended => /\ CleanupIds = Reverse(DeferIds)
                    /\ result.kind = IF Faults = {} THEN "return" ELSE "panic"

\* a Must aborted the block after two registrations and Run has returned
W_MustAborts ==
    /\ Ended /\ Aborts # {} /\ result.kind = "return"
    /\ Len(DeferIds) = 2 /\ Len(CleanupIds) = 2

\* C5: when the handler chain of a Must returns nil, the error is dropped:
\* e is unchanged (no error recorded, nothing drained), nothing is raised
\* and the callback goes on; entries registered later are drained with the
\* earlier ones, and if nothing else fails Run returns nil.
DiscardStep ==
    (/\ Len(trace') > Len(trace)
     /\ trace'[Len(trace) + 1].op = "Must"
     /\ trace'[Len(trace')].op = "handle"
     /\ trace'[Len(trace')].out = Nil)
        => /\ pc = "f" /\ pc' = "f"
           /\ e' = e
           /\ UNCHANGED <<panicVal, recovering, result>>

DiscardResumes ==
    /\ [][DiscardStep]_vars
    /\ []((Ended /\ Survivors = {} /\ Faults = {})
            => /\ result = [kind |-> "return", val |-> Nil]
               /\ CleanupIds = Reverse(DeferIds))

\* register A, Must(err1, Discard), register B: B then A are drained, Run
\* returns nil
W_DiscardResumes ==
    /\ Ended /\ result = [kind |-> "return", val |-> Nil]
    /\ \E a, m, b, cb, ca \in DOMAIN trace :
          /\ a < m /\ m < b /\ b < cb /\ cb < ca
          /\ trace[a].op = "Defer" /\ trace[b].op = "Defer"
          /\ trace[m].op = "Must" /\ ChainResult(m) = Nil
          /\ trace[cb].op = "cleanup" /\ trace[cb].who = trace[b].who
          /\ trace[ca].op = "cleanup" /\ trace[ca].who = trace[a].who

\* C6: when the callback panics with V, all entries registered so far are
\* drained, then a panic is re-raised to the caller of Run, with V itself as
\* its value (also when V is no error value); Run does not return.
ReraisesCallbackPanic ==
    \A i \in BodyFaults :
        /\ result.kind # "return"
        /\ Ended => /\ CleanupIds = Reverse(DeferIds)
                    /\ result = [kind |-> "panic", val |-> trace[i].arg]

\* C7: whatever the handlers (Discard included), a block execution in which
\* a panic was intercepted never ends by Run returning: it ends by a panic
\* re-raised to the caller of Run.
PanicsStayPanics ==
    Faults # {} =>
        /\ result.kind # "return"
        /\ Ended => result.kind = "panic"

\* Discard ran while the panic was in flight, and Run re-raised
W_PanicsStayPanics ==
    /\ Ended /\ result.kind = "panic"
    /\ \E i \in DOMAIN trace :
          /\ trace[i].op = "handle" /\ trace[i].who.kind = "Discard"
          /\ trace[i].panicking

\* C8: the panic of bail never leaves Run: Run recovers it and returns the
\* stored error; its caller sees errOurPanic neither as a panic nor as the
\* returned error.
AbortSignalStaysInside ==
    /\ result.val # errOurPanic
    /\ (pc = "done" /\ \E i \in DOMAIN trace :
                          trace[i].op = "panic" /\ trace[i].arg = errOurPanic)
          => /\ result = [kind |-> "return", val |-> e.err]
             /\ e.err # Nil

\* bail has panicked after draining an entry and Run has returned
W_AbortSignalStaysInside ==
    /\ pc = "done" /\ result.kind = "return" /\ Len(CleanupIds) >= 1
    /\ \E i \in DOMAIN trace : trace[i].op = "panic" /\ trace[i].arg = errOurPanic

\* C9: at a Must called with at least one handler these handlers are called,
\* in the order listed, and no default handler, even if every one of them
\* returns an error; at a Must called without handlers the default handlers
\* are called in the order configured.
DefaultsOnlyWithoutExplicit ==
    \A i \in MustSites :
        IF trace[i].hs # <<>>
        THEN /\ Called(i) # <<>>
             /\ CalledInOrder(i, trace[i].hs)
             /\ \A k \in DOMAIN Called(i) : Called(i)[k] \notin DefaultHandlers
        ELSE CalledInOrder(i, config.defaultHandlers)

\* with two default handlers configured, a Must without handlers ran both of
\* them in order, and a later Must with handlers of its own ran all of these,
\* each of which returned an error, so that the error stood and aborted the
\* block, and no default handler
W_DefaultsOnlyWithoutExplicit ==
    /\ Len(config.defaultHandlers) = 2
    /\ \E j, i \in MustSites :
          /\ j < i
          /\ trace[j].hs = <<>> /\ Called(j) = config.defaultHandlers
          /\ trace[i].hs # <<>> /\ Called(i) = trace[i].hs
          /\ \A k \in 1..Len(Called(i)) : trace[i + k].out \notin {Nil, osExit}
          /\ i \in Aborts

\* C10: when a cleanup entry returns an error the handlers passed with it to
\* Defer are called and no default handler; without such handlers the default
\* handlers are called in the order configured; the same after a Must has
\* aborted the block.
AttachedHs(i) ==
    LET d == CHOOSE j \in DOMAIN trace :
                 trace[j].op = "Defer" /\ trace[j].who = trace[i].who
    IN  trace[d].hs

DeferDefaultsOnlyWithoutAttached ==
    \A i \in ErrorSites :
        trace[i].op = "cleanup" =>
            IF AttachedHs(i) # <<>>
            THEN /\ Called(i) # <<>>
                 /\ \A k \in DOMAIN Called(i) :
                       \E n \in DOMAIN AttachedHs(i) : Called(i)[k] = AttachedHs(i)[n]
            ELSE CalledInOrder(i, config.defaultHandlers)

\* after an abort, one entry's error went to its own handler and stayed an
\* error, another entry's error went to the default handler
W_DeferDefaultsOnlyWithoutAttached ==
    /\ Aborts # {} /\ config.defaultHandlers # <<>>
    /\ \E i, j \in ErrorSites :
          /\ trace[i].op = "cleanup" /\ trace[j].op = "cleanup"
          /\ AttachedHs(i) # <<>> /\ Survives(i)
          /\ AttachedHs(j) = <<>> /\ Called(j) = config.defaultHandlers

----------------------------------------------------------------------------
\* the checks of the callback that had an error to process
CheckSites == {i \in DOMAIN trace : trace[i].op \in {"Must", "IsSentinel"}}

\* the handlers site i is to run: its own, else the Runner's defaults
ToRun(i, own) == IF own # <<>> THEN own ELSE config.defaultHandlers

\* each handler called at site i received what the one before it returned,
\* the first one the error of the site
Threaded(i) ==
    \A k \in 1..Len(Called(i)) :
        trace[i + k].arg = IF k = 1 THEN RawErr(i) ELSE trace[i + k - 1].out

\* C11: the handlers h1..hn of an error site are called in the order listed,
\* each with the error the one before returned; the chain stops at the first
\* that returns nil and is otherwise run to the end, its result being
\* hn(...h1(e0)); with no handler at all the error goes through unchanged.
\* Must(errX, inc) makes Run return errX+1, Must(errX, inc, inc) errX+2,
\* for errX an intErr.
HandlerChainThreading ==
    \A i \in CheckSites :
        /\ CalledInOrder(i, ToRun(i, trace[i].hs))
        /\ Threaded(i)
        /\ (/\ RawErr(i).tag = "intErr"
            /\ \A k \in DOMAIN Called(i) : Called(i)[k].kind = "inc")
              => ChainResult(i) = intErr(RawErr(i).n + Len(Called(i)))
        /\ (trace[i].op = "Must" /\ Survives(i) /\ Faults = {}
                /\ pc = "done" /\ result.kind = "return")
              => result.val = ChainResult(i)

\* Must(errX, inc, inc) has made Run return errX+2
W_HandlerChainThreading ==
    /\ pc = "done" /\ result.kind = "return"
    /\ \E i \in CheckSites :
          /\ trace[i].op = "Must" /\ Len(trace[i].hs) = 2
          /\ Len(Called(i)) = 2 /\ Called(i)[1].kind = "inc" /\ Called(i)[2].kind = "inc"
          /\ trace[i].arg.tag = "intErr"
          /\ result.val = intErr(trace[i].arg.n + 2)

\* no panic of a cleanup function or of the callback between events i and j
NoFaultBetween(i, j) == \A k \in i..j : ~IsFault(k)

\* C12, as stated in the specification: the error is stored before the drain
\* of an abort starts: every cleanup function called by that drain observes
\* Err() equal to the error as handled by the chain of the Must, and Run
\* returns that value.
AbortErrorSeenByWholeDrain ==
    \A i \in Aborts :
        /\ \A j \in DOMAIN trace :
              (j > i /\ trace[j].op = "cleanup") => trace[j].err = ChainResult(i)
        /\ Ended => result = [kind |-> "return", val |-> ChainResult(i)]

\* C12, as the code has it: ... every cleanup function called by that drain
\* before a cleanup function panics observes Err() equal to the error as
\* handled by the chain, and Run returns that value if no cleanup function
\* panics (and no Fatal handler ends the process).
AbortErrorSeenByDrain ==
    \A i \in Aborts :
        /\ pc = "bail" => e.err = ChainResult(i)
        /\ \A j \in DOMAIN trace :
              (j > i /\ trace[j].op = "cleanup" /\ NoFaultBetween(i, j))
                  => trace[j].err = ChainResult(i)
        /\ (Ended /\ Faults = {}) => result = [kind |-> "return", val |-> ChainResult(i)]

\* Must(err, inc) aborted; two cleanup functions saw err+1, Run returned it
W_AbortErrorSeenByDrain ==
    /\ Ended /\ result.kind = "return"
    /\ \E i \in Aborts :
          /\ ChainResult(i) # RawErr(i) /\ result.val = ChainResult(i)
          /\ \E j, k \in DOMAIN trace :
                /\ i < j /\ j < k
                /\ trace[j].op = "cleanup" /\ trace[j].err = ChainResult(i)
                /\ trace[k].op = "cleanup" /\ trace[k].err = ChainResult(i)

\* the error a recovered panic value r is recorded as
FaultErr(r) == IF isError(r) THEN r ELSE paniced(r)

\* C13: once a panic with value V is recovered, every cleanup function called
\* after that and before a further panic observes Err() equal to V when V is
\* an error, to the error "errd: paniced: V" when it is not, and never nil.
FaultSeenByDrain ==
    \A f \in Faults : \A j \in DOMAIN trace :
        (f < j /\ trace[j].op = "cleanup" /\ NoFaultBetween(f + 1, j))
            => /\ trace[j].err = FaultErr(trace[f].arg)
               /\ trace[j].err # Nil

\* the callback panicked with a value that is no error and a cleanup function
\* saw the wrapper; a cleanup function panicked with an error and the next
\* one saw that error
W_FaultSeenByDrain ==
    /\ Ended
    /\ \E f, g \in Faults : \E j, k \in DOMAIN trace :
          /\ f < j /\ j < g /\ g < k
          /\ ~isError(trace[f].arg) /\ isError(trace[g].arg)
          /\ trace[j].op = "cleanup" /\ trace[j].err = paniced(trace[f].arg)
          /\ trace[k].op = "cleanup" /\ trace[k].err = trace[g].arg

\* a cleanup function that returned an error which survived its handlers
\* while Err() was nil
FirstCleanupErrors ==
    {j \in ErrorSites : trace[j].op = "cleanup" /\ trace[j].err = Nil /\ Survives(j)}

\* C14, as stated in the specification: when the callback returns and the
\* cleanup function cj returns an error that survives its handlers while no
\* error is stored, every cleanup function called after cj observes Err()
\* equal to that error as handled, and the ones called before observed nil.
CleanupErrorSeenByAllLater ==
    \A j \in FirstCleanupErrors : \A k \in DOMAIN trace :
        trace[k].op = "cleanup" =>
            /\ k < j => trace[k].err = Nil
            /\ k > j => trace[k].err = ChainResult(j)

\* C14, as the code has it: ... every cleanup function called after cj and
\* before a cleanup function panics observes Err() equal to that error as
\* handled, and the ones called before observed nil.
CleanupErrorSeenByLater ==
    \A j \in FirstCleanupErrors : \A k \in DOMAIN trace :
        trace[k].op = "cleanup" =>
            /\ k < j => trace[k].err = Nil
            /\ (k > j /\ NoFaultBetween(j, k)) => trace[k].err = ChainResult(j)

\* c3 saw nil, c2 returned an error that inc made err+1, c1 saw err+1
W_CleanupErrorSeenByLater ==
    /\ Ended /\ result.kind = "return" /\ Aborts = {}
    /\ \E j \in FirstCleanupErrors : \E i, k \in DOMAIN trace :
          /\ i < j /\ j < k
          /\ trace[i].op = "cleanup" /\ trace[i].err = Nil
          /\ ChainResult(j) # RawErr(j)
          /\ trace[k].op = "cleanup" /\ trace[k].err = ChainResult(j)

\* the cleanup functions that returned an error
CleanupErrorSites == {i \in ErrorSites : trace[i].op = "cleanup"}

\* C15: the handlers h1..hn passed to Defer with a cleanup function are
\* called, when that function returns an error, after it has run, h1 first
\* and hn last, each with the result of the one before, up to the first that
\* returns nil.
AttachedHandlersInOrder ==
    \A i \in CleanupErrorSites :
        AttachedHs(i) # <<>> =>
            /\ CalledInOrder(i, AttachedHs(i))
            /\ Threaded(i)

\* Defer(c, inc, Discard): c returned an error, inc was called with it, then
\* Discard with what inc returned
W_AttachedHandlersInOrder ==
    \E i \in CleanupErrorSites :
        /\ Len(AttachedHs(i)) = 2 /\ Called(i) = AttachedHs(i)
        /\ Called(i)[1].kind = "inc" /\ Called(i)[2].kind = "Discard"
        /\ trace[i + 1].arg = trace[i].out
        /\ trace[i + 2].arg = inc(NoHandler, trace[i].out)

\* C16: IsSentinel(S, S, h...) returns true and IsSentinel(S, nil, h...)
\* returns false; either way no handler is called (no Discard, no default
\* handler), no error is stored, nothing is drained and the callback goes on.
SentinelOrNilStep ==
    \A sentinel \in Sentinels(nops) : \A err \in {sentinel, Nil} :
        \A h \in HandlerLists :
            IsSentinel(sentinel, err, h) =>
                /\ got' = IF err = sentinel THEN "true" ELSE "false"
                /\ trace' = trace
                /\ e' = e /\ e'.err = Nil
                /\ pc' = "f"
                /\ UNCHANGED <<panicVal, result>>

SentinelPassThrough == [][SentinelOrNilStep]_vars

\* the first statement was IsSentinel(S, S, h) with one handler, on a Runner
\* with default handlers: it returned true, no handler was called
W_SentinelPassThrough ==
    /\ nops = 1 /\ nhandlers = 1 /\ config.defaultHandlers # <<>>
    /\ got = "true" /\ trace = <<>>
    /\ pc = "f" /\ e = newE(config)

\* the IsSentinel calls that had an error other than the sentinel to process
SentinelSites == {i \in CheckSites : trace[i].op = "IsSentinel"}

\* C17: IsSentinel(S, E, h...) with E not nil and not S runs E through the
\* handlers (h, else the defaults): if the chain ends in S it returns true,
\* if it ends in nil it returns false, and in both cases the callback goes on
\* with no error stored; otherwise the block aborts as with Must and Run
\* returns E as handled.
SentinelChainStep ==
    \A i \in {Len(trace) + 1} :
        (Len(trace') > Len(trace) /\ trace'[i].op = "IsSentinel") =>
            /\ trace'[i].arg \notin {Nil, trace'[i].out}
            /\ CalledInOrder(i, ToRun(i, trace[i].hs))'
            /\ CASE ChainResult(i)' = trace'[i].out ->
                      got' = "true" /\ e' = e /\ e.err = Nil /\ pc' = "f"
                 [] ChainResult(i)' = Nil ->
                      got' = "false" /\ e' = e /\ e.err = Nil /\ pc' = "f"
                 [] ChainResult(i)' = osExit ->
                      pc' = "done" /\ result'.kind = "exit"
                 [] OTHER ->
                      /\ pc' = "bail" /\ got' = got
                      /\ e' = [e EXCEPT !.err = ChainResult(i)']

SentinelChain ==
    /\ [][SentinelChainStep]_vars
    /\ [](\A i \in SentinelSites :
            (Survives(i) /\ Ended /\ Faults = {})
                => result = [kind |-> "return", val |-> ChainResult(i)])

\* IsSentinel(err+1, err, inc) returned true and the callback goes on
W_SentinelChain ==
    /\ pc = "f" /\ got = "true" /\ e.err = Nil
    /\ \E i \in SentinelSites :
          /\ Len(trace) = i + 1
          /\ trace[i + 1].who.kind = "inc"
          /\ trace[i + 1].out = trace[i].out

\* the calls of handlers and of cleanup functions
Invocations == {j \in DOMAIN trace : trace[j].op \in {"handle", "cleanup"}}

\* C18: Panicking() tells whether a panic has been recovered in this block
\* execution: it is false in every call of a handler or cleanup function
\* before any panic, and true in every such call from the recovery of the
\* first panic to the end of the block execution.
PanickingTellsFault ==
    /\ \A j \in Invocations : trace[j].panicking = (\E f \in Faults : f < j)
    /\ pc # "panicking" => Panicking(e) = (Faults # {})

\* a handler was called before the panic of a cleanup function and saw
\* false, a handler called after it saw true
W_PanickingTellsFault ==
    /\ Ended
    /\ \E i, j \in Invocations : \E f \in Faults :
          /\ i < f /\ f < j
          /\ trace[i].op = "handle" /\ ~trace[i].panicking
          /\ trace[j].op = "handle" /\ trace[j].panicking

\* the calls of handlers a step adds to the history
NewHandlerCalls ==
    {j \in (Len(trace) + 1)..Len(trace') : trace'[j].op = "handle"}

\* C19: from the recovery of a panic on no handler changes the stored error,
\* whatever it returns (another error, or nil as Discard does): the stored
\* error stays the error of the panic.
HandlersKeepFaultStep ==
    (Panicking(e) /\ NewHandlerCalls # {}) => e'.err = e.err

NoRewriteWhilePanicking ==
    /\ [][HandlersKeepFaultStep]_vars
    /\ []((Faults # {} /\ pc # "panicking") => e.err = FaultErr(LastFault))

\* after the panic, inc returned another error and Discard returned nil; the
\* stored error is still the error of the panic
W_NoRewriteWhilePanicking ==
    /\ Faults # {} /\ pc # "panicking" /\ e.err = FaultErr(LastFault)
    /\ \E i, j \in Invocations :
          /\ trace[i].op = "handle" /\ trace[i].panicking
          /\ trace[i].who.kind = "inc" /\ trace[i].out # e.err
          /\ trace[j].op = "handle" /\ trace[j].panicking
          /\ trace[j].who.kind = "Discard"

\* C20: a call of the Fatal handler, passed to Must or Defer or configured as
\* default, ends the process with status 1 there and then: no handler and no
\* cleanup function is called after it, Run neither returns nor re-raises.
FatalEndsProcess ==
    \A j \in Invocations :
        (trace[j].op = "handle" /\ trace[j].who.kind = "Fatal") =>
            /\ j = Len(trace)
            /\ pc = "done"
            /\ result = [kind |-> "exit", val |-> osExit]
            /\ osExit.n = 1

\* Fatal was called for the error of a cleanup function while another entry
\* was still registered
W_FatalEndsProcess ==
    /\ Len(trace) > 0
    /\ trace[Len(trace)].op = "handle" /\ trace[Len(trace)].who.kind = "Fatal"
    /\ Len(trace) > 1 /\ trace[Len(trace) - 1].op = "cleanup"
    /\ \E k \in DOMAIN e.deferred : e.deferred[k].f # NilFunc
    /\ result.kind = "exit"

----------------------------------------------------------------------------
\* C21 as stated: every call of a handler or cleanup function in a block
\* started with RunWithContext(ctx, f) observes Context() equal to ctx.
ContextIsCtx ==
    \A i \in Invocations : trace[i].context = ctx

\* C21: the engine never changes the context of a block execution, and
\* every call of a handler (at a check site or attached to a cleanup entry)
\* or of a cleanup function observes Context() equal to the context the
\* block was started with when that context is not nil, and equal to the
\* placeholder context.TODO(), which is not nil, when the block was started
\* with Run or with a nil context.
ContextCarried ==
    /\ e.context = ctx
    /\ TODO # NilContext
    /\ \A i \in Invocations :
          trace[i].context = IF ctx = NilContext THEN TODO ELSE ctx

\* under a context that is not nil, a handler passed to Must, a cleanup
\* function and a handler attached to its entry have been called
W_ContextCarried ==
    /\ ctx = "ctx"
    /\ \E i, j, k \in Invocations :
          /\ trace[i].op = "handle" /\ trace[i].who.name = "h"
          /\ \E m \in MustSites : m < i /\ i <= LastHandle(m)
          /\ trace[j].op = "cleanup" /\ trace[j].out # Nil
          /\ trace[k].op = "handle" /\ trace[k].who.name = "h"
          /\ j < k /\ k <= LastHandle(j)

----------------------------------------------------------------------------
\* the error a condition check hands to error handling
CondErr(condition, err) == IF condition THEN Nil ELSE err

ConditionCheckStep ==
    /\ \A h \in ShortHandlerLists : \A condition \in BOOLEAN : \A msg \in Msgs(nops) :
          AssertCond(condition, msg, h) <=> Must(CondErr(condition, MsgError(msg)), h)
    /\ \A condition \in BOOLEAN :
          Assertf(condition, "format %d", 1)
              <=> Must(CondErr(condition, Errorf("format %d", 1)), <<>>)
    /\ \A h \in ShortHandlerLists : \A msg \in Msgs(nops) :
          (Must(Nil, h) \/ AssertCond(TRUE, msg, h) \/ Assertf(TRUE, "format %d", 1)) =>
              /\ trace' = trace
              /\ e'.err = e.err /\ e'.deferred = e.deferred
              /\ pc = "f" /\ pc' = "f"

\* C22: the condition check (cond, msg, handlers...) takes exactly the steps
\* of Must(err, handlers...), and the check (cond, format, args...) those of
\* Must(err) without handlers, where err is nil when cond is true and the
\* error built from msg (from the format) when it is false.  With a nil
\* error or a true condition no handler is called, e.err and e.deferred are
\* unchanged and the callback goes on.
ConditionCheckAsMust == [][ConditionCheckStep]_vars

\* a false condition with a string msg went through a handler passed with
\* it and the callback went on to a false condition with a format, which
\* went through a default handler
W_ConditionCheckAsMust ==
    \E i, j \in MustSites :
        /\ i < j
        /\ trace[i].arg = errorsNew("error") /\ trace[i].hs # <<>>
        /\ trace[i + 1].op = "handle" /\ trace[i + 1].who.name = "h"
        /\ trace[j].arg = Errorf("format %d", 1)
        /\ j < Len(trace)
        /\ trace[j + 1].op = "handle" /\ trace[j + 1].who.name = "d"
        /\ trace[j + 1].site = trace[j].site

----------------------------------------------------------------------------
\* the action the callback executed at statement site, read off the history
ActionAt(site) ==
    IF \E i \in DOMAIN trace : trace[i].op = "Defer" /\ trace[i].site = site
    THEN LET i == CHOOSE i \in DOMAIN trace : trace[i].op = "Defer" /\ trace[i].site = site
         IN  trace[i].who.action
    ELSE IF \E i \in DOMAIN trace : trace[i].op = "Must" /\ trace[i].site = site
    THEN "retError"
    ELSE "bodyPanic"

ActionsDone == [i \in 1..nops |-> ActionAt(i - 1)]

\* the closers closed so far, in order
Closed == CleanupIds

\* C23: for every sequence of actions, the block of errdClosureDefer and the
\* function of properTraditionalDefer close the same closers in the same
\* order and end the same way: they return the same error, or the same
\* value is re-raised to the caller.
Conformance ==
    Ended =>
        LET want == properTraditionalDefer(ActionsDone)
        IN  /\ Closed = want.closed
            /\ result = want.result

\* the block ended for the actions deferPanic, deferError, deferPanic,
\* retError: three closers closed, two of them panicking
W_Conformance ==
    /\ Ended
    /\ ActionsDone = <<"deferPanic", "deferError", "deferPanic", "retError">>
    /\ Closed = <<2, 1, 0>>
    /\ result.kind = "panic"

----------------------------------------------------------------------------
WriteOnceStep == e.err # Nil => e'.err = e.err

\* C24 as stated: once e.err holds an error no step replaces it by another
\* error, be it a later checked error, a cleanup error or a panic.
WriteOnce == [][WriteOnceStep]_vars

WriteOnceButPanicStep ==
    e.err # Nil =>
        \/ e'.err = e.err
        \/ /\ pc = "panicking" /\ panicVal # errOurPanic
           /\ e'.err = FaultErr(panicVal)

\* C24: once e.err holds an error, no later checked error and no later
\* cleanup error replaces it; only the recovery of a panic that is not the
\* one of bail replaces it, by the error of that panic.
WriteOnceButPanic == [][WriteOnceButPanicStep]_vars

\* the error of a Must was stored, a cleanup function called by the drain
\* returned an error that survived its handlers and was not stored, then a
\* cleanup function panicked and the error of that panic is stored
W_WriteOnceButPanic ==
    \E i \in Aborts : \E j \in CleanupErrorSites : \E f \in Faults :
        /\ i < j /\ j < f
        /\ Survives(j) /\ trace[j].err = ChainResult(i)
        /\ trace[f - 1].err = ChainResult(i)
        /\ pc # "panicking" /\ e.err = FaultErr(trace[f].arg)
        /\ e.err # ChainResult(i)

----------------------------------------------------------------------------
\* the panics raised while an error was stored
FaultsOverError == {f \in Faults : trace[f].err # Nil}

\* C25: a panic overrides any previous error: when a panic is recovered
\* while e.err holds the error of a Must or of a cleanup function, every
\* cleanup function called after the recovery and before a further panic
\* observes Err() equal to the error of the panic and not the error stored
\* before.
PanicOverridesError ==
    \A f \in FaultsOverError : \A j \in DOMAIN trace :
        (f < j /\ trace[j].op = "cleanup" /\ NoFaultBetween(f + 1, j)) =>
            /\ trace[j].err = FaultErr(trace[f].arg)
            /\ trace[j].err # trace[f].err

\* a cleanup function panicked while the error of a Must was stored, and a
\* cleanup function was called after the recovery
W_PanicOverridesError ==
    \E f \in FaultsOverError : \E j \in DOMAIN trace :
        /\ f < j /\ trace[j].op = "cleanup" /\ NoFaultBetween(f + 1, j)
        /\ \E m \in Aborts : m < f /\ trace[f].err = ChainResult(m)
        /\ trace[j].err.tag = "defer-panic-err"

----------------------------------------------------------------------------
\* the cleanup panics raised while finishDefer drains for an earlier panic
FaultsWhileFinishing == {f \in Faults : IsCleanupFault(f) /\ \E g \in Faults : g < f}

\* the first panic of the block execution that is not the one of bail
FirstFault == trace[CHOOSE i \in Faults : \A j \in Faults : i <= j].arg

\* C26: a panic of a cleanup function raised while the engine finishes the
\* cleanup for an earlier panic V1 is ignored for re-raising: the remaining
\* entries are still drained and the panic re-raised to the caller of Run is
\* the older one, V1.
OlderPanicReraised ==
    (Ended /\ FaultsWhileFinishing # {}) =>
        /\ CleanupIds = Reverse(DeferIds)
        /\ result = [kind |-> "panic", val |-> FirstFault]

----------------------------------------------------------------------------
\* C27: when a Must leaves the callback with an error and a cleanup function
\* panics with V during the drain of that abort, the panic supersedes the
\* abort: the remaining entries are still drained, the block execution ends
\* with V re-raised to the caller of Run, and Run does not return the error
\* of the Must.
PanicSupersedesAbort ==
    \A i \in Aborts : \A f \in Faults :
        (Ended /\ i < f /\ NoFaultBetween(i, f - 1)) =>
            /\ CleanupIds = Reverse(DeferIds)
            /\ result = [kind |-> "panic", val |-> trace[f].arg]
            /\ result # [kind |-> "return", val |-> ChainResult(i)]

----------------------------------------------------------------------------
\* the cleanup functions that returned an error while an error was stored
LateCleanupErrors == {i \in CleanupErrorSites : trace[i].err # Nil}

\* C28: the error a cleanup function returns while e.err is already set is
\* still handled: it goes through the handlers passed to Defer with that
\* function, else through the defaults, each called as usual with the result
\* of the one before; only the result of the chain is dropped: e.err is the
\* same during and after the chain as before it.
LateCleanupErrorHandled ==
    \A i \in LateCleanupErrors :
        /\ CalledInOrder(i, ToRun(i, AttachedHs(i)))
        /\ Threaded(i)
        /\ \A k \in 1..Len(Called(i)) : trace[i + k].err = trace[i].err
        /\ IF LastHandle(i) < Len(trace)
           THEN trace[LastHandle(i) + 1].err = trace[i].err
           ELSE e.err = trace[i].err

\* with the error of a Must stored, a cleanup function returned an error
\* that went through the handler inc passed to Defer, and another one an
\* error that went through a default handler; both survived and the stored
\* error is still the one of the Must
W_LateCleanupErrorHandled ==
    \E m \in Aborts : \E i, j \in LateCleanupErrors :
        /\ m < i /\ i < j
        /\ AttachedHs(i) # <<>> /\ Called(i) = AttachedHs(i)
        /\ trace[i + 1].who.kind = "inc" /\ Survives(i)
        /\ AttachedHs(j) = <<>> /\ Called(j) = config.defaultHandlers
        /\ Called(j) # <<>> /\ Survives(j)
        /\ e.err = ChainResult(m)
        /\ e.err # ChainResult(i) /\ e.err # ChainResult(j)

----------------------------------------------------------------------------
\* the error site whose chain the handler call k belongs to
ChainOf(k) == {i \in ErrorSites : i < k /\ k <= LastHandle(i)}

\* C29: the handlers passed to Defer with a cleanup function are used for
\* that function only.  Every call of a handler belongs to the chain of one
\* error site, a Must with an error or a cleanup function that returned an
\* error; the chain of a cleanup function calls handlers of its own Defer
\* (else defaults), the chain of a Must handlers of that Must (else
\* defaults); no handler is called after a cleanup function that returned
\* nil; and what is called as a cleanup function is always a function
\* registered by Defer, never a handler.
AttachedHandlersOnlyForOwnEntry ==
    /\ \A k \in DOMAIN trace :
          trace[k].op = "handle" =>
              \E i \in ChainOf(k) : trace[i].site = trace[k].site
    /\ \A i \in ErrorSites :
          IsPrefix(Called(i),
                   ToRun(i, IF trace[i].op = "cleanup" THEN AttachedHs(i) ELSE trace[i].hs))
    /\ \A i \in DOMAIN trace :
          (trace[i].op = "cleanup" /\ trace[i].out = Nil /\ i < Len(trace)) =>
              trace[i + 1].op # "handle"
    /\ \A i \in DOMAIN trace :
          trace[i].op = "cleanup" =>
              \E d \in DOMAIN trace :
                  d < i /\ trace[d].op = "Defer" /\ trace[d].who = trace[i].who

\* two cleanup functions were registered with different handlers: the one
\* that returned an error called the handlers of its own Defer, and after
\* the one that returned nil, called last, no handler was called
W_AttachedHandlersOnlyForOwnEntry ==
    \E a, b \in DOMAIN trace : \E ca, cb \in DOMAIN trace :
        /\ trace[a].op = "Defer" /\ trace[b].op = "Defer" /\ a < b
        /\ trace[a].hs # <<>> /\ trace[b].hs # <<>> /\ trace[a].hs # trace[b].hs
        /\ trace[cb].op = "cleanup" /\ trace[cb].who = trace[b].who
        /\ trace[ca].op = "cleanup" /\ trace[ca].who = trace[a].who
        /\ trace[cb].out # Nil /\ Called(cb) = trace[b].hs
        /\ trace[ca].out = Nil /\ ca = Len(trace)

----------------------------------------------------------------------------
FailedRegistrationStep ==
    \A h \in HandlerLists :
        (DeferNotSupported(h) \/ DeferFuncNil(h)) => e'.deferred = e.deferred

\* C30: a registration that fails as a programming error (deferFunc with a
\* nil function, Defer of a value of a type the switch does not know) pushes
\* nothing onto e.deferred, neither the entry nor any of the handlers passed
\* with it: e.deferred is the same after the call as before.
FailedRegistrationPushesNothing == [][FailedRegistrationStep]_vars

----------------------------------------------------------------------------
\* the panics of a failed registration: deferFunc with a nil function, Defer
\* of a value of an unsupported type
RegistrationFaults == {f \in Faults : trace[f].arg \in {errNilFunc, notSupported}}

\* C31: a programming error in a registration is raised in the callback as
\* a panic and takes the path of any panic: the entries registered before
\* are drained, each cleanup function observing the error of the failed
\* registration as Err() and Panicking() true, and then the same value is
\* re-raised to the caller of Run.
RegistrationFaultReraised ==
    \A f \in RegistrationFaults :
        /\ \A j \in DOMAIN trace :
              (f < j /\ trace[j].op = "cleanup") =>
                  trace[j].err = trace[f].arg /\ trace[j].panicking
        /\ Ended => /\ CleanupIds = Reverse(DeferIds)
                    /\ result = [kind |-> "panic", val |-> trace[f].arg]

\* C32: sequential reuse of a Runner: after a block execution that ended
\* with nil, with an error or with a re-raised panic, the next block
\* execution on the same Runner starts with no error stored, no deferred
\* entry and Panicking() false, on the default handlers the Runner was
\* configured with; and nothing of the earlier execution shows in it: the
\* Runner's config is as it was, a handler or cleanup function observes
\* Panicking() true only after a panic of this execution, and the first
\* statement of the block observes Err() nil.
SequentialReuse ==
    other.rel = "before" =>
        /\ config = [other.e.runner EXCEPT !.inPanic = FALSE]
        /\ e.runner.defaultHandlers = config.defaultHandlers
        /\ (trace = <<>> /\ pc = "f") =>
               e.err = Nil /\ e.deferred = <<>> /\ ~Panicking(e)
        /\ \A j \in Invocations : trace[j].panicking = (\E f \in Faults : f < j)
        /\ pc # "panicking" => Panicking(e) = (Faults # {})
        /\ trace # <<>> => trace[1].err = Nil

\* a block that re-raised a panic was followed by a block on the same Runner
\* whose handler was called for an error of Must
W_SequentialReuse ==
    /\ other.rel = "before"
    /\ other.result.kind = "panic"
    /\ \E j \in DOMAIN trace : trace[j].op = "handle" /\ ~trace[j].panicking

----------------------------------------------------------------------------
\* the calls of handlers and cleanup functions of the other block execution
\* and its recovered panics
OtherInvocations ==
    {j \in DOMAIN other.trace : other.trace[j].op \in {"handle", "cleanup"}}
OtherFaults ==
    {i \in DOMAIN other.trace :
        other.trace[i].op = "panic" /\ other.trace[i].arg # errOurPanic}

\* C33: two block executions running concurrently on one Runner do not
\* interfere, however their steps interleave: the Runner's config is never
\* written (a panic sets inPanic on a copy held by the execution that
\* recovered it), each execution's Panicking() values follow its own panics
\* only, and each execution closes its closers in the order and ends with
\* the error or panic that the same block gives when it runs alone, which is
\* the one of properTraditionalDefer.
ConcurrentRunsIndependent ==
    other.rel = "concurrent" =>
        /\ config = [defaultHandlers |-> <<>>, inPanic |-> FALSE]
        /\ \A j \in Invocations : trace[j].panicking = (\E f \in Faults : f < j)
        /\ \A j \in OtherInvocations :
               other.trace[j].panicking = (\E f \in OtherFaults : f < j)
        /\ pc # "panicking" => Panicking(e) = (Faults # {})
        /\ other.pc # "panicking" => Panicking(other.e) = (OtherFaults # {})
        /\ Ended =>
               LET want == properTraditionalDefer(ActionsDone)
               IN  /\ Closed = want.closed
                   /\ result = want.result

\* both executions are draining their cleanup entries, one after a panic and
\* the other after an error of Must, and each has called a cleanup function
W_ConcurrentRunsIndependent ==
    /\ other.rel = "concurrent"
    /\ pc \notin {"f", "done"}
    /\ other.pc \notin {"f", "done"}
    /\ Panicking(other.e)
    /\ ~Panicking(e)
    /\ e.err # Nil
    /\ OtherInvocations # {}
    /\ Invocations # {}
    /\ e.deferred # <<>>
    /\ other.e.deferred # <<>>

----------------------------------------------------------------------------
\* the errors of the outer Must calls of the inner callback that survived
\* the handlers, given the history of the inner block execution
OuterAborts(tr) ==
    {tr[i].out : i \in {j \in DOMAIN tr : tr[j].op = "MustOuter" /\ tr[j].out # Nil}}

\* some doRecover of a block execution took the case errOurPanic
Intercepted(rec) == \E k \in DOMAIN rec : rec[k].ours

\* C34: the panic of bail is intercepted only by the block execution whose
\* E raised it: when the callback of an inner Run calls Must on the E of the
\* outer Run with an error that survives, the doRecover of the inner Run
\* does not take the case errOurPanic and the inner Run does not return;
\* the outer Run returns that error.
AbortInterceptedByOwner ==
    /\ (other.rel = "outer" /\ OuterAborts(trace) # {}) =>
           /\ ~Intercepted(recovering)
           /\ result.kind # "return"
    /\ (other.rel = "inner" /\ OuterAborts(other.trace) # {}) =>
           /\ ~Intercepted(other.recovering)
           /\ other.result.kind # "return"
           /\ Ended => /\ result.kind = "return"
                       /\ result.val \in OuterAborts(other.trace)

----------------------------------------------------------------------------
\* C35: while the callback runs (no drain has started) no error is stored
\* and Panicking() is false, so every handler called for a Must or a
\* condition check of the callback observes Err() nil and Panicking() false.
RunningIsClean ==
    /\ pc = "f" => e.err = Nil /\ ~Panicking(e)
    /\ \A i \in CheckSites :
           \A k \in 1..Len(Called(i)) :
               trace[i + k].err = Nil /\ ~trace[i + k].panicking

----------------------------------------------------------------------------
\* C36: whenever the panic of bail is raised or intercepted, an error is
\* stored: e.err is not nil when bail panics with errOurPanic and when a
\* doRecover takes the case errOurPanic, so a Run that ends through that
\* case returns an error that is not nil.
AbortHasError ==
    /\ \A i \in DOMAIN trace :
           (trace[i].op = "panic" /\ trace[i].arg = errOurPanic) => trace[i].err # Nil
    /\ \A i \in DOMAIN other.trace :
           (other.trace[i].op = "panic" /\ other.trace[i].arg = errOurPanic)
               => other.trace[i].err # Nil
    /\ Intercepted(recovering) => e.err # Nil
    /\ (Intercepted(recovering) /\ pc = "done") =>
           result.kind \in {"return", "exit"} /\ result.val # Nil

----------------------------------------------------------------------------
\* The goroutine of Run keeps executing: the callback, the cleanup functions
\* and the handlers return or panic, and every step of Run that can be taken
\* is taken.
\* the handlers passed to Defer in that specification: none, or one that
\* is not Fatal
FairHandlerLists ==
    {<<>>} \cup {<<[kind |-> k, name |-> "h"]>> : k \in {"inc", "Discard"}}

NextFair ==
    \/ nops < MaxFair /\ Must(errs(nops), <<>>)
    \/ \E h \in FairHandlerLists : \E a \in CleanupActions : nops < MaxFair /\ Defer(a, h)
    \/ \E h \in FairHandlerLists : nops < MaxFair /\ DeferFunc(h)
    \/ \E h \in FairHandlerLists : nops < MaxFair /\ DeferNotSupported(h)
    \/ nops < MaxFair /\ BodyPanic(panicErrors(nops))
    \/ BodyReturn
    \/ DoDefers
    \/ RunReturn
    \/ bail
    \/ doRecover
    \/ endRecover

SpecFair == InitConformance /\ [][NextFair]_vars /\ WF_vars(NextFair)

\* C37: with a callback, cleanup functions and handlers that terminate and
\* no Fatal handler called, every block execution ends (Run returns, or
\* re-raises a panic), whatever path it takes, panics of cleanup functions
\* during the drain included; and when it has ended no deferred entry is
\* left, neither a cleanup function nor a handler marker.
EventuallyDone ==
    <>(pc = "done" /\ (result.kind # "exit" => Ended /\ e.deferred = <<>>))

\* the block ended after a cleanup function with handlers attached panicked
\* while the entries were drained for an earlier panic
W_EventuallyDone ==
    /\ Ended
    /\ FaultsWhileFinishing # {}
    /\ nhandlers > 0
    /\ \E i \in DOMAIN trace : trace[i].op = "Defer" /\ trace[i].hs # <<>>

----------------------------------------------------------------------------
\* C38: in every call of a handler, Err() is nil or an error different from
\* the error passed to the handler.
ErrDiffersFromArgument ==
    \A i \in DOMAIN trace :
        trace[i].op = "handle" => (trace[i].err = Nil \/ trace[i].err # trace[i].arg)

----------------------------------------------------------------------------
\* the handlers passed to the Defer call that registered the entry of site
HsOf(site) ==
    LET i == CHOOSE i \in DOMAIN trace : trace[i].op = "Defer" /\ trace[i].site = site
    IN  trace[i].hs

\* this step takes a cleanup function from the end of e.deferred
PopsEntry ==
    /\ e.deferred # <<>>
    /\ e.deferred[Len(e.deferred)].f # NilFunc
    /\ Len(e'.deferred) < Len(e.deferred)

MarkersPoppedBeforeEntryStep ==
    PopsEntry =>
        \A j \in 1..(Len(e.deferred) - 1) :
            e.deferred[j].f = NilFunc =>
                \E k \in (j + 1)..(Len(e.deferred) - 1) : e.deferred[k].f # NilFunc

\* C39 as stated: the markers of an entry are popped before the entry: when
\* a cleanup function is popped, no marker of its own is left in e.deferred
\* (every marker still there belongs to an entry still there).
MarkersPoppedBeforeEntry == [][MarkersPoppedBeforeEntryStep]_vars

MarkersBelowEntryStep ==
    PopsEntry =>
        LET k  == Len(e.deferred)
            hs == HsOf(e.deferred[k].x.id)
            n  == Len(hs)
        IN  /\ n < k
            /\ \A j \in 1..n : e.deferred[k - j] = [x |-> hs[j], f |-> NilFunc]
            /\ k - n > 1 => e.deferred[k - n - 1].f # NilFunc
            /\ \A j \in 1..n : e'.deferred[k - j] = e.deferred[k - j]

\* C39 amended: the markers of an entry sit directly below it in e.deferred,
\* the first handler nearest to the entry, and are popped after it: when a
\* cleanup function is popped, all its markers are still there, directly
\* below it, and stay until the function has been called and its error
\* handled.
MarkersBelowEntry == [][MarkersBelowEntryStep]_vars

\* a cleanup function registered with two handlers has been popped and
\* called, it returned an error, and its two markers are still in e.deferred
W_MarkersBelowEntry ==
    /\ InDoDefers
    /\ trace # <<>>
    /\ \E i \in DOMAIN trace :
          /\ trace[i].op = "cleanup" /\ trace[i].out # Nil
          /\ Len(HsOf(trace[i].site)) = 2
          /\ \A j \in i + 1..Len(trace) : trace[j].op = "handle"
    /\ Len(e.deferred) >= 2
    /\ e.deferred[Len(e.deferred)].f = NilFunc
    /\ e.deferred[Len(e.deferred) - 1].f = NilFunc

====
